---- MODULE Spec2Model ----
(***************************************************************************)
(* The cognitive agent loop of AI-society: the per-agent memory store      *)
(* (app/agents/memory.py), the reflection engine (app/agents/reflection.py)*)
(* the reaction engine (app/agents/reaction.py), the planning system       *)
(* (app/agents/planning.py) and the decision scheduler                     *)
(* (app/agents/decision.py, app/agents/manager.py).                        *)
(*                                                                         *)
(* Wall time is counted in units of eight hours.  Scores are kept          *)
(* as integers: a retrieval score is the source's float times 10000, a     *)
(* recency score the source's float times 1000.                            *)
(***************************************************************************)
EXTENDS Integers, Sequences, FiniteSets, TLC

VARIABLES
    now,        \* wall clock, datetime.now(), in time units
    memory,     \* agent id -> that agent's MemoryManager
    ret,        \* the last call on a store or engine and what it returned
    agents,     \* agent id -> the registered Agent (AgentManager._agents)
    pipe,       \* agent id -> that agent's pipeline (_process_agent) of the current tick
    sched,      \* the DecisionScheduler loop
    bus,        \* the process-wide EventBus
    locations,  \* location id -> Location (LocationManager.locations)
    by_location,        \* location id -> agent ids (AgentManager._by_location)
    last_event_check,   \* PerceptionSystem._last_event_check
    conversations,      \* the process-wide ConversationManager
    recent_events       \* PerceptionSystem._recent_events

vars == <<now, memory, ret, agents, pipe, sched, bus, locations, by_location,
          last_event_check, conversations, recent_events>>

\* the process-wide objects every pipeline reaches
shared == <<bus, locations, by_location, last_event_check, conversations, recent_events>>

\* what the scheduler and its pipelines own or reach
world == <<agents, pipe, sched, shared>>

(***************************************************************************)
(* Bounds of the model.                                                    *)
(***************************************************************************)
MaxMemories == 1
ReflectCapacity == 2
MaxTime == 1
MaxAccumulated == 160
MaxMemAccumulated == 20
MaxAccess == 1
MaxReflectAccess == 3
MaxTicks == 2
SchedTicks == 1
BatchSize == 2
LoopTime == 4
LoopTicks == 2
MoveTicks == 1
DecideTicks == 1
MaxReply == 6
HangTicks == 1
RetrieveCapacity == 2
MaxRetrieveAccess == 2
MaxBlocks == 2
MaxBalance == 400
MaxEnded == 1
MaxPublished == 2
MaxEvents == 2
CompleteTicks == 3

(***************************************************************************)
(* Program constants.                                                      *)
(***************************************************************************)
ReflectionThreshold == 150
ReflectionImportance == 8
NumQuestions == 3
RecentLimit == 100
RelevantLimit == 10
MinScore == 1000

NoTime == -1

AgentIds == {"a1", "a2", "a3"}
MemoryTypes == {"event", "conversation", "observation", "emotion", "social", "reflection"}
Keywords == {"k1", "k2"}

(***************************************************************************)
(* Sequence helpers with Python's list semantics.                          *)
(***************************************************************************)
Range(s) == {s[i] : i \in DOMAIN s}

Min2(a, b) == IF a < b THEN a ELSE b

Max2(a, b) == IF a > b THEN a ELSE b

\* s[:n]
Take(s, n) == SubSeq(s, 1, Min2(n, Len(s)))

\* list.remove(x): drops the first occurrence (the callers check membership first)
ListRemove(s, x) ==
    IF x \notin Range(s) THEN s
    ELSE LET i == CHOOSE k \in DOMAIN s : s[k] = x /\ \A j \in 1..(k - 1) : s[j] # x
         IN  SubSeq(s, 1, i - 1) \o SubSeq(s, i + 1, Len(s))

\* sorted(s, key=...): stable, ascending; keys[i] is the key of s[i]
SortedAsc(s, keys) ==
    LET rank(i) == Cardinality({j \in DOMAIN s :
                        keys[j] < keys[i] \/ (keys[j] = keys[i] /\ j < i)}) + 1
    IN  [r \in DOMAIN s |-> s[CHOOSE i \in DOMAIN s : rank(i) = r]]

\* sorted(s, key=..., reverse=True): stable, descending; keys[i] is the key of s[i]
SortedDesc(s, keys) ==
    LET rank(i) == Cardinality({j \in DOMAIN s :
                        keys[j] > keys[i] \/ (keys[j] = keys[i] /\ j < i)}) + 1
    IN  [r \in DOMAIN s |-> s[CHOOSE i \in DOMAIN s : rank(i) = r]]

(***************************************************************************)
(* Memory (memory.py): one record per memory.  keywords stands for the     *)
(* tokens of length >= 2 that _extract_keywords takes from the content.    *)
(***************************************************************************)
Memory(id, type, importance, created_at, related_agents, keywords) ==
    [id |-> id, type |-> type, importance |-> importance, created_at |-> created_at,
     related_agents |-> related_agents, keywords |-> keywords,
     access_count |-> 0]

\* Memory.access (last_accessed, which it also sets, is read nowhere and not kept)
access(m, t) == [m EXCEPT !.access_count = @ + 1]

\* e ** (-age_hours / 24) times 1000 for an age of 0, 1, 2, ... time units
RecencyTable == <<1000, 717, 513, 368, 264, 189, 135, 97, 69, 50, 36>>

\* Memory.get_recency_score: max(0.01, min(1.0, e ** (-age_hours / 24))), times 1000
get_recency_score(m, t) ==
    LET age == t - m.created_at
        raw == IF age < 0 THEN 1000
               ELSE IF age + 1 > Len(RecencyTable) THEN 10
               ELSE RecencyTable[age + 1]
    IN  Max2(10, Min2(1000, raw))

\* Memory.get_relevance_score: Jaccard similarity, times 1000
get_relevance_score(m, query_keywords) ==
    IF query_keywords = {} \/ m.keywords = {} THEN 0
    ELSE (1000 * Cardinality(m.keywords \cap query_keywords))
            \div Cardinality(m.keywords \cup query_keywords)

\* Memory.get_retrieval_score, times 10000:
\* importance / 10 * 0.4 + recency * 0.3 + relevance * 0.3, relevance 0.5 without a query
get_retrieval_score(m, query_keywords, t) ==
    LET relevance == IF query_keywords # {} THEN get_relevance_score(m, query_keywords)
                     ELSE 500
    IN  m.importance * 400 + get_recency_score(m, t) * 3 + relevance * 3

(***************************************************************************)
(* MemoryManager (memory.py).  _memories is a dict: a sequence in          *)
(* insertion order with one entry per id.                                  *)
(***************************************************************************)
MemoryManager(max_memories) ==
    [max_memories |-> max_memories,
     memories |-> <<>>,
     by_type |-> [t \in MemoryTypes |-> <<>>],
     by_agent |-> <<>>,
     accumulated_importance |-> 0,
     last_reflection_time |-> NoTime]

MemoryIds(store) == {store.memories[i].id : i \in DOMAIN store.memories}

Lookup(store, id) == store.memories[CHOOSE i \in DOMAIN store.memories : store.memories[i].id = id]

\* self._memories[memory.id] = memory
DictSet(mems, m) ==
    IF \E i \in DOMAIN mems : mems[i].id = m.id
    THEN [i \in DOMAIN mems |-> IF mems[i].id = m.id THEN m ELSE mems[i]]
    ELSE Append(mems, m)

\* del self._memories[memory_id]
DictDel(mems, id) == SelectSeq(mems, LAMBDA x : x.id # id)

count(store) == Len(store.memories)

\* the loop of remove over memory.related_agents: one entry of the agent's list
\* is taken out for each time the agent is named
RECURSIVE UnindexAgents(_, _, _)
UnindexAgents(ba, related, id) ==
    IF related = <<>> THEN ba
    ELSE LET a == Head(related)
             nxt == IF a \in DOMAIN ba THEN [ba EXCEPT ![a] = ListRemove(@, id)] ELSE ba
         IN  UnindexAgents(nxt, Tail(related), id)

\* MemoryManager.remove
remove(store, memory_id) ==
    IF memory_id \notin MemoryIds(store) THEN store
    ELSE LET m == Lookup(store, memory_id)
             bt == [store.by_type EXCEPT ![m.type] = ListRemove(@, memory_id)]
             ba == UnindexAgents(store.by_agent, m.related_agents, memory_id)
         IN  [store EXCEPT !.by_type = bt, !.by_agent = ba,
                           !.memories = DictDel(@, memory_id)]

RECURSIVE RemoveAll(_, _)
RemoveAll(store, ids) ==
    IF ids = <<>> THEN store ELSE RemoveAll(remove(store, Head(ids)), Tail(ids))

\* a forgetting that drops the memory that has been in the store longest
ForgetFirst(store, t) ==
    IF store.memories = <<>> THEN store ELSE RemoveAll(store, <<store.memories[1].id>>)

\* MemoryManager._forget_least_important: drops the lowest-scoring 10%, at least one
ForgetCount(n) == Max2(1, n \div 10)

_forget_least_important(store, t) ==
    IF store.memories = <<>> THEN store
    ELSE LET scores == [i \in DOMAIN store.memories |->
                            get_retrieval_score(store.memories[i], {}, t)]
             sorted_memories == SortedAsc(store.memories, scores)
             to_remove == ForgetCount(Len(sorted_memories))
             victims == Take(sorted_memories, to_remove)
         IN  RemoveAll(store, [i \in DOMAIN victims |-> victims[i].id])

\* a capacity check that lets the store grow one past its capacity
AtCapacityAbove(store) == Len(store.memories) > store.max_memories

\* the capacity check at the head of MemoryManager.add
AtCapacity(store) == Len(store.memories) >= store.max_memories

\* an accumulation that keeps the last importance only
AccumulateLast(total, importance) == importance

\* self.accumulated_importance += memory.importance
Accumulate(total, importance) == total + importance

RECURSIVE IndexAgents(_, _, _)
IndexAgents(ba, related, id) ==
    IF related = <<>> THEN ba
    ELSE LET a == Head(related)
             cur == IF a \in DOMAIN ba THEN ba[a] ELSE <<>>
             nxt == [x \in (DOMAIN ba) \cup {a} |-> IF x = a THEN Append(cur, id) ELSE ba[x]]
         IN  IndexAgents(nxt, Tail(related), id)

\* MemoryManager.add
add(store, m, t) ==
    LET s1 == IF AtCapacity(store) THEN _forget_least_important(store, t) ELSE store
    IN  [s1 EXCEPT !.memories = DictSet(@, m),
                   !.by_type = [@ EXCEPT ![m.type] = Append(@, m.id)],
                   !.by_agent = IndexAgents(@, m.related_agents, m.id),
                   !.accumulated_importance = Accumulate(@, m.importance)]

\* MemoryManager.reset_accumulated_importance
reset_accumulated_importance(store, t) ==
    [store EXCEPT !.accumulated_importance = 0, !.last_reflection_time = t]

\* uuid4: an id no memory and no index of the store holds
FreshId(store) ==
    LET used == MemoryIds(store)
                \cup UNION {Range(store.by_type[t]) : t \in MemoryTypes}
                \cup UNION {Range(store.by_agent[a]) : a \in DOMAIN store.by_agent}
    IN  CHOOSE n \in 1..(Cardinality(used) + 1) : n \notin used

\* MemoryManager.create_and_add
create_and_add(store, type, importance, related_agents, keywords, t) ==
    add(store, Memory(FreshId(store), type, importance, t, related_agents, keywords), t)

\* a get that does not count the access
GetUncounted(store, memory_id, t) == store

\* MemoryManager.get
get(store, memory_id, t) ==
    IF memory_id \notin MemoryIds(store) THEN store
    ELSE [store EXCEPT !.memories =
            [i \in DOMAIN @ |-> IF @[i].id = memory_id THEN access(@[i], t) ELSE @[i]]]

\* MemoryManager.retrieve_recent
retrieve_recent(store, limit) ==
    LET created == [i \in DOMAIN store.memories |-> store.memories[i].created_at]
    IN  Take(SortedDesc(store.memories, created), limit)

\* MemoryManager.clear
clear(store) ==
    [store EXCEPT !.memories = <<>>,
                  !.by_type = [t \in MemoryTypes |-> <<>>],
                  !.by_agent = <<>>,
                  !.accumulated_importance = 0]

\* Memory.to_dict / Memory.from_dict: a dict that from_dict cannot read (an
\* unknown type, a bad date) raises
to_dict(m) ==
    [valid |-> TRUE, id |-> m.id, type |-> m.type, importance |-> m.importance,
     created_at |-> m.created_at, related_agents |-> m.related_agents,
     keywords |-> m.keywords, access_count |-> m.access_count]

BadDict ==
    [valid |-> FALSE, id |-> 0, type |-> "event", importance |-> 0, created_at |-> 0,
     related_agents |-> <<>>, keywords |-> {}, access_count |-> 0]

from_dict(d) ==
    [id |-> d.id, type |-> d.type, importance |-> d.importance, created_at |-> d.created_at,
     related_agents |-> d.related_agents, keywords |-> d.keywords,
     access_count |-> d.access_count]

\* MemoryManager.to_list
to_list(store) == [i \in DOMAIN store.memories |-> to_dict(store.memories[i])]

\* the except branch of load_from_list's loop: the item is logged and skipped
LoadFailure(acc) == acc

\* MemoryManager.load_from_list
RECURSIVE LoadItems(_, _, _)
LoadItems(acc, data, t) ==
    IF data = <<>> THEN acc
    ELSE LET item == Head(data)
             nxt == IF item.valid
                    THEN [acc EXCEPT !.store = add(@, from_dict(item), t), !.count = @ + 1]
                    ELSE LoadFailure(acc)
         IN  LoadItems(nxt, Tail(data), t)

load_from_list(store, data, t) ==
    LoadItems([store |-> store, count |-> 0, raised |-> FALSE], data, t)

\* MemoryManager.retrieve_relevant: every memory scoring min_score or more is
\* accessed; the best `limit` of them are returned
retrieve_relevant(store, query_keywords, limit, min_score, t) ==
    LET hit(m) == get_retrieval_score(m, query_keywords, t) >= min_score
        touched == [i \in DOMAIN store.memories |->
                       IF hit(store.memories[i]) THEN access(store.memories[i], t)
                       ELSE store.memories[i]]
        scored == SelectSeq(touched, hit)
        scores == [i \in DOMAIN scored |-> get_retrieval_score(scored[i], query_keywords, t)]
    IN  [store |-> [store EXCEPT !.memories = touched],
         results |-> Take(SortedDesc(scored, scores), limit)]

(***************************************************************************)
(* ReflectionEngine (reflection.py).  An inference call either fails or    *)
(* returns text.  The text of a questions call is a sequence of non-blank  *)
(* lines; a line is a record: q says whether it holds a "?", kw are its    *)
(* tokens of length >= 2.                                                  *)
(***************************************************************************)
NoResult == [questions |-> 0, insights |-> 0, memories_created |-> 0]

\* ReflectionEngine.should_reflect
should_reflect(store) == store.accumulated_importance >= ReflectionThreshold

\* ReflectionEngine.generate_questions: llm is [ok, lines]
generate_questions(store, llm) ==
    IF retrieve_recent(store, RecentLimit) = <<>> THEN <<>>
    ELSE IF ~llm.ok THEN <<>>
    ELSE Take(SelectSeq(llm.lines, LAMBDA line : line.q), NumQuestions)

\* ReflectionEngine.generate_insight: llm is "fail", "empty" (blank text) or "text";
\* the result is the store after the retrieval and whether an insight came back
generate_insight(store, question, llm, t) ==
    LET r == retrieve_relevant(store, question.kw, RelevantLimit, MinScore, t)
    IN  [store |-> r.store,
         insight |-> r.results # <<>> /\ llm = "text"]

\* an end of run_reflection that stamps the time and keeps the counter
KeepCounter(store, t) == [store EXCEPT !.last_reflection_time = t]

\* the end of run_reflection, after the loop over the questions
FinishReflection(store, t) == reset_accumulated_importance(store, t)

\* an abort that resets the counter all the same
ResetAtAbort(store, t) == reset_accumulated_importance(store, t)

\* the abort of run_reflection when there is no question
AbortReflection(store, t) == store

\* a loop over the questions that gives up at the first question without an insight
RECURSIVE StopAtFailure(_, _, _, _, _)
StopAtFailure(acc, questions, insight_llm, insight_kw, t) ==
    IF questions = <<>> THEN acc
    ELSE LET g == generate_insight(acc.store, Head(questions), Head(insight_llm), t)
         IN  IF ~g.insight THEN [acc EXCEPT !.store = g.store]
             ELSE StopAtFailure([store |-> create_and_add(g.store, "reflection",
                                                        ReflectionImportance, <<>>, insight_kw, t),
                                 insights |-> acc.insights + 1,
                                 memories_created |-> acc.memories_created + 1],
                                Tail(questions), Tail(insight_llm), insight_kw, t)

\* the loop of run_reflection over the questions
RECURSIVE ReflectQuestions(_, _, _, _, _)
ReflectQuestions(acc, questions, insight_llm, insight_kw, t) ==
    IF questions = <<>> THEN acc
    ELSE LET g == generate_insight(acc.store, Head(questions), Head(insight_llm), t)
             nxt == IF g.insight
                    THEN [store |-> create_and_add(g.store, "reflection", ReflectionImportance,
                                                   <<>>, insight_kw, t),
                          insights |-> acc.insights + 1,
                          memories_created |-> acc.memories_created + 1]
                    ELSE [acc EXCEPT !.store = g.store]
         IN  ReflectQuestions(nxt, Tail(questions), Tail(insight_llm), insight_kw, t)

\* ReflectionEngine.run_reflection
run_reflection(store, question_llm, insight_llm, insight_kw, t) ==
    LET questions == generate_questions(store, question_llm)
    IN  IF questions = <<>>
        THEN [store |-> AbortReflection(store, t), result |-> NoResult]
        ELSE LET done == ReflectQuestions([store |-> store, insights |-> 0,
                                           memories_created |-> 0],
                                          questions, insight_llm, insight_kw, t)
             IN  [store |-> FinishReflection(done.store, t),
                  result |-> [questions |-> Len(questions), insights |-> done.insights,
                              memories_created |-> done.memories_created]]

\* maybe_reflect: the result is None (ran = FALSE) below the threshold
maybe_reflect(store, question_llm, insight_llm, insight_kw, t) ==
    IF should_reflect(store)
    THEN [ran |-> TRUE] @@ run_reflection(store, question_llm, insight_llm, insight_kw, t)
    ELSE [ran |-> FALSE, store |-> store, result |-> NoResult]

(***************************************************************************)
(* The calls on one agent's store as actions.  ret records the call.       *)
(***************************************************************************)
Ret(op, raised, result) ==
    [op |-> op, raised |-> raised, questions |-> result.questions,
     insights |-> result.insights, memories_created |-> result.memories_created]

MaxAccessCount(store) ==
    IF store.memories = <<>> THEN 0
    ELSE CHOOSE n \in {store.memories[i].access_count : i \in DOMAIN store.memories} :
            \A i \in DOMAIN store.memories : store.memories[i].access_count <= n

MaxIndexLen(store) ==
    LET lens == {Len(store.by_type[t]) : t \in MemoryTypes}
                \cup {Len(store.by_agent[a]) : a \in DOMAIN store.by_agent}
    IN  CHOOSE n \in lens \cup {0} : \A k \in lens : k <= n

\* the stores stay within the bounds of the memory-store specification
MemBounds ==
    \A a \in AgentIds :
        /\ memory[a].accumulated_importance <= MaxMemAccumulated
        /\ MaxAccessCount(memory[a]) <= MaxAccess
        /\ MaxIndexLen(memory[a]) <= MaxMemories + 1

\* the stores stay within the bounds of the reflection specification
ReflectBounds ==
    \A a \in AgentIds :
        /\ memory[a].accumulated_importance <= MaxAccumulated
        /\ MaxAccessCount(memory[a]) <= MaxReflectAccess

\* the clock moves on by one unit, up to a limit
Clock(limit) ==
    /\ now < limit
    /\ now' = now + 1
    /\ UNCHANGED <<memory, ret>>

AdvanceClock == Clock(MaxTime)

CreateAndAdd(a, type, importance, related_agents, keywords) ==
    LET s == create_and_add(memory[a], type, importance, related_agents, keywords, now)
    IN  /\ memory' = [memory EXCEPT ![a] = s]
        /\ ret' = Ret("create_and_add", FALSE, NoResult)
        /\ UNCHANGED now

LoadFromList(a, data) ==
    LET r == load_from_list(memory[a], data, now)
    IN  /\ memory' = [memory EXCEPT ![a] = r.store]
        /\ ret' = Ret("load_from_list", r.raised, NoResult)
        /\ UNCHANGED now

Remove(a, memory_id) ==
    /\ memory' = [memory EXCEPT ![a] = remove(@, memory_id)]
    /\ ret' = Ret("remove", FALSE, NoResult)
    /\ UNCHANGED now

Get(a, memory_id) ==
    LET s == get(memory[a], memory_id, now)
    IN  /\ memory' = [memory EXCEPT ![a] = s]
        /\ ret' = Ret("get", FALSE, NoResult)
        /\ UNCHANGED now

RetrieveRecent(a) ==
    /\ ret' = Ret("retrieve_recent", FALSE, NoResult)
    /\ UNCHANGED <<now, memory>>

RetrieveRelevant(a, query_keywords) ==
    LET r == retrieve_relevant(memory[a], query_keywords, RelevantLimit, MinScore, now)
    IN  /\ memory' = [memory EXCEPT ![a] = r.store]
        /\ ret' = Ret("retrieve_relevant", FALSE, NoResult)
        /\ UNCHANGED now

Clear(a) ==
    /\ memory' = [memory EXCEPT ![a] = clear(@)]
    /\ ret' = Ret("clear", FALSE, NoResult)
    /\ UNCHANGED now

RunReflection(a, question_llm, insight_llm, insight_kw) ==
    LET r == run_reflection(memory[a], question_llm, insight_llm, insight_kw, now)
    IN  /\ memory' = [memory EXCEPT ![a] = r.store]
        /\ ret' = Ret("run_reflection", FALSE, r.result)
        /\ UNCHANGED now

\* maybe_reflect(agent), the reflection step of an agent's tick
MaybeReflect(a, question_llm, insight_llm, insight_kw) ==
    LET r == maybe_reflect(memory[a], question_llm, insight_llm, insight_kw, now)
    IN  /\ memory' = [memory EXCEPT ![a] = r.store]
        /\ ret' = Ret(IF r.ran THEN "run_reflection" ELSE "maybe_reflect", FALSE, r.result)
        /\ UNCHANGED now

(***************************************************************************)
(* Agent (models.py).  Durations are minutes; the clock counts units of    *)
(* UnitMinutes minutes.                                                    *)
(***************************************************************************)
UnitMinutes == 480

\* a text is a tuple of words; None is the empty tuple
NoText == <<>>

\* the truth value Python gives a text: None and "" are false
Truthy(text) == text # NoText /\ text # <<"">>

AgentStates == {"active", "sleeping", "busy", "in_conversation", "paused", "offline"}

\* CurrentAction: type, duration_minutes, started_at, and no thinking yet
CurrentAction(type, duration_minutes, t) ==
    [type |-> type, duration_minutes |-> duration_minutes, started_at |-> t,
     thinking |-> NoText]

\* an is_complete that holds for every action with a declared duration
CompleteOnceDeclared(action, t) == action.duration_minutes > 0

\* CurrentAction.is_complete
is_complete(action, t) ==
    IF action.duration_minutes <= 0 THEN FALSE
    ELSE (t - action.started_at) * UnitMinutes >= action.duration_minutes

\* Agent.set_action
set_action(agent, action_type, duration_minutes, thinking, t) ==
    [agent EXCEPT !.current_action = [CurrentAction(action_type, duration_minutes, t)
                                         EXCEPT !.thinking = thinking],
                  !.state = IF action_type = "sleep" THEN "sleeping"
                            ELSE IF action_type = "chat" THEN "in_conversation"
                            ELSE IF action_type \in {"work", "move"} THEN "busy"
                            ELSE "active"]

\* settings.daily_expense_base, programmer_hourly_wage and initial_balance, in yuan
daily_expense_base == 185
programmer_hourly_wage == 150
initial_balance == 10000

\* Money is counted in parts of a yuan that make a third and a fifth of the
\* daily expense whole numbers.
MoneyScale == 15

Money(yuan) == yuan * MoneyScale

\* a spend_money that does not look at the balance
SpendUnchecked(agent, store, amount, reason, t) ==
    [ok |-> TRUE,
     agent |-> [agent EXCEPT !.balance = @ - amount, !.daily_expense = @ + amount],
     store |-> IF reason # <<>> /\ reason # <<"">>
               THEN create_and_add(store, "event", 3, <<>>, {"k1"}, t) ELSE store]

\* Agent.spend_money: whether the balance sufficed, the agent and its store
spend_money(agent, store, amount, reason, t) ==
    IF agent.balance < amount THEN [ok |-> FALSE, agent |-> agent, store |-> store]
    ELSE [ok |-> TRUE,
          agent |-> [agent EXCEPT !.balance = @ - amount, !.daily_expense = @ + amount],
          store |-> IF reason # <<>> /\ reason # <<"">>
                    THEN create_and_add(store, "event", 3, <<>>, {"k1"}, t) ELSE store]

\* Agent.complete_action: finished work is paid by the hour
complete_action(agent, t) ==
    LET completed == agent.current_action
        income == (Money(programmer_hourly_wage) * completed.duration_minutes) \div 60
        paid == IF completed.type = "work"
                THEN [agent EXCEPT !.balance = @ + income, !.daily_income = @ + income]
                ELSE agent
    IN  [paid EXCEPT !.current_action = CurrentAction("idle", 0, t), !.state = "active"]

(***************************************************************************)
(* DailyPlan (planning.py).  The time of day is a clock string "HH:MM",    *)
(* and the plan compares clock strings as texts.                           *)
(***************************************************************************)
SlotsPerDay == 3

PlanBlock(start_time, end_time, activity) ==
    [start_time |-> start_time, end_time |-> end_time, activity |-> activity]

\* _last_plan_date before the first trigger; the date of no plan
NoDate == -1

\* agent.daily_plan is None
NoPlan ==
    [exists |-> FALSE, plan_date |-> NoDate, broad_strokes |-> <<>>, hourly_chunks |-> <<>>,
     current_tasks |-> <<>>]

DailyPlan(plan_date, broad_strokes, hourly_chunks, current_tasks) ==
    [exists |-> TRUE, plan_date |-> plan_date, broad_strokes |-> broad_strokes, hourly_chunks |-> hourly_chunks,
     current_tasks |-> current_tasks]

\* A clock string is the sequence of its characters: a digit is its value,
\* the colon comes after every digit as it does in the character set.
Colon == 10

\* Python's < on two strings
StrLess(a, b) ==
    \E k \in 1..Len(b) :
        /\ k - 1 <= Len(a)
        /\ \A j \in 1..(k - 1) : a[j] = b[j]
        /\ k = Len(a) + 1 \/ a[k] < b[k]

\* Python's <= on two strings
StrLeq(a, b) == a = b \/ StrLess(a, b)

\* "%02d:%02d" of an hour and a minute
HHMM(hour, minute) == <<hour \div 10, hour % 10, Colon, minute \div 10, minute % 10>>

\* the clock string of a full hour, as a reply that keeps the format writes it
Hour(h) == HHMM(h, 0)

\* current_time.strftime("%H:%M")
TimeStr(t) == HHMM((t % SlotsPerDay) * (UnitMinutes \div 60), 0)

\* the blocks for which start_time <= time_str < end_time
Covering(blocks, time_str) ==
    SelectSeq(blocks, LAMBDA b : StrLeq(b.start_time, time_str) /\ StrLess(time_str, b.end_time))

\* the None of get_current_block
NoBlock == PlanBlock(<<>>, <<>>, "none")

\* DailyPlan.get_current_block
get_current_block(plan, t) ==
    LET time_str == TimeStr(t)
    IN  IF Covering(plan.current_tasks, time_str) # <<>>
            THEN Head(Covering(plan.current_tasks, time_str))
        ELSE IF Covering(plan.hourly_chunks, time_str) # <<>>
            THEN Head(Covering(plan.hourly_chunks, time_str))
        ELSE IF Covering(plan.broad_strokes, time_str) # <<>>
            THEN Head(Covering(plan.broad_strokes, time_str))
        ELSE NoBlock

\* DailyPlan.get_current_task
get_current_task(plan, t) == get_current_block(plan, t)

\* DailyPlan.get_remaining_plan
get_remaining_plan(plan, t) ==
    SelectSeq(plan.broad_strokes, LAMBDA b : StrLess(TimeStr(t), b.end_time))

\* replan_from_now: llm is the reply of the inference call, of kind "fail" (the call
\* raises), "unparsable" (no JSON in the text), "no_key" (a JSON object without
\* new_plan), "bad_item" (an item that is no object) or "plan" (with its blocks)
replan_from_now(plan, llm, t) ==
    IF ~plan.exists THEN <<>>
    ELSE IF llm.kind = "plan" THEN llm.blocks
    ELSE <<>>

(***************************************************************************)
(* Perception (perception.py) and the reaction engine (reaction.py).       *)
(***************************************************************************)

Perception(agents_nearby, new_events, addressed_by) ==
    [agents_nearby |-> agents_nearby, new_events |-> new_events,
     being_addressed |-> addressed_by # NoText, addressed_by |-> addressed_by,
     notable_changes |-> <<>>]

\* an is_empty that no perception passes
NeverEmpty(p) == FALSE

\* Perception.is_empty
is_empty(p) ==
    /\ p.agents_nearby = <<>>
    /\ p.new_events = <<>>
    /\ ~p.being_addressed
    /\ p.notable_changes = <<>>

ReactionDecision(flag, reaction_type, reaction) ==
    [should_react |-> flag, reaction_type |-> reaction_type, reaction |-> reaction]

\* no decision: should_react has not returned one
NoDecision == ReactionDecision(FALSE, "none", NoText)

\* the default at the end of should_react
DefaultDecision == ReactionDecision(FALSE, "continue", NoText)

\* str.lower on the reaction types an inference reply names
Lower(str) ==
    IF str = "Interrupt" THEN "interrupt" ELSE IF str = "NOTE" THEN "note" ELSE str

\* the parse of reaction_type in should_react
ParseReactionType(str) ==
    IF Lower(str) = "interrupt" THEN "interrupt"
    ELSE IF Lower(str) = "note" THEN "note"
    ELSE "continue"

\* should_react.  current_plan is the argument the caller passes: of tag "none"
\* (None), "str" (a non-empty string) or "block" (a PlanBlock).  llm is the reply
\* of the inference call: of kind "fail" (the call raises), "unparsable" (no JSON
\* object in the text, or an empty one), "bad_json" (JSON whose fields have the
\* wrong type) or "json".  The result tells whether the call raised, how many
\* inference calls it made and the decision it returned.
should_react(agent, perception, current_plan, llm, t) ==
    IF is_empty(perception)
        THEN [raised |-> FALSE, calls |-> 0, decision |-> DefaultDecision]
    ELSE IF perception.being_addressed
        THEN [raised |-> FALSE, calls |-> 0,
              decision |-> ReactionDecision(TRUE, "interrupt",
                                            <<"respond">> \o perception.addressed_by)]
    ELSE IF current_plan.tag = "str"
        \* current_plan.start_time on a str: AttributeError, outside the try
        THEN [raised |-> TRUE, calls |-> 0, decision |-> NoDecision]
    ELSE IF llm.kind = "json"
        THEN [raised |-> FALSE, calls |-> 1,
              decision |-> ReactionDecision(llm.should_react,
                                            ParseReactionType(llm.reaction_type),
                                            llm.reaction)]
    ELSE [raised |-> FALSE, calls |-> 1, decision |-> DefaultDecision]

\* a replacement of broad_strokes that takes the empty list too
ReplaceAlways(plan, new_blocks) == [plan EXCEPT !.broad_strokes = new_blocks]

\* if new_blocks: agent.daily_plan.broad_strokes = new_blocks
ReplaceBroadStrokes(plan, new_blocks) ==
    IF new_blocks # <<>> THEN [plan EXCEPT !.broad_strokes = new_blocks] ELSE plan

\* execute_reaction: the agent's store and plan afterwards, the kind of the reply to
\* the replan call ("none" without a call) and the number of blocks it returned
execute_reaction(agent, store, decision, replan_llm, t) ==
    LET same == [store |-> store, plan |-> agent.daily_plan, replan |-> "none", blocks |-> 0]
    IN  IF ~decision.should_react THEN same
        ELSE IF decision.reaction_type = "note"
            THEN IF Truthy(decision.reaction)
                 THEN [same EXCEPT !.store =
                          create_and_add(store, "observation", 4, <<>>, {"k1"}, t)]
                 ELSE same
        ELSE IF decision.reaction_type = "interrupt"
            THEN LET s1 == create_and_add(store, "event", 5, <<>>, {"k1"}, t)
                     s2 == IF Truthy(decision.reaction)
                           THEN create_and_add(s1, "event", 5, <<>>, {"k2"}, t)
                           ELSE s1
                 IN  IF agent.daily_plan.exists /\ Truthy(decision.reaction)
                     THEN LET new_blocks == replan_from_now(agent.daily_plan, replan_llm, t)
                          IN  [store |-> s2,
                               plan |-> ReplaceBroadStrokes(agent.daily_plan, new_blocks),
                               replan |-> replan_llm.kind, blocks |-> Len(new_blocks)]
                     ELSE [same EXCEPT !.store = s2]
        ELSE same

(***************************************************************************)
(* execute_decision (decision.py).  A decision is its action and, for a    *)
(* move, whether the target location was found and had room.               *)
(***************************************************************************)
NoAction == [action |-> "none", target |-> NoText, thinking |-> NoText]

(***************************************************************************)
(* EventBus (core/events.py).  An event is its type.  history is the list  *)
(* of the events the bus accepted, dispatched the list of the events it    *)
(* handed to the handlers subscribed to their type.                        *)
(***************************************************************************)
EventType ==
    {"agent.moved", "agent.decided", "agent.action", "agent.created", "agent.left",
     "agent.state_changed", "conversation.started", "conversation.message",
     "conversation.ended", "chat.requested", "world.tick", "world.time_changed",
     "world.broadcast", "world.rule_changed", "world.event", "economy.transaction",
     "system.error", "system.warning"}

max_history == 1000

\* EventBus.__init__; called is the list of the handlers that were run
EventBus == [history |-> <<>>, dispatched |-> <<>>, handlers |-> <<>>, called |-> <<>>]

\* a handler is its name and whether running it raises an exception
Handler(name, raises) == [name |-> name, raises |-> raises]

\* EventBus.add_handler
add_handler(b, event_type, handler) ==
    LET registered == IF event_type \in DOMAIN b.handlers THEN b.handlers[event_type] ELSE <<>>
    IN  [b EXCEPT !.handlers =
            [e \in DOMAIN @ \cup {event_type} |->
                IF e # event_type THEN @[e]
                ELSE IF handler \in Range(registered) THEN registered
                ELSE Append(registered, handler)]]

\* the bus once setup_conversation_handlers has subscribed its handler
Subscribing(b) == add_handler(b, "chat.requested", Handler("handle_chat_requested", FALSE))

\* running a handler with nothing around it: what it raises reaches the caller
HandleUnguarded(handler) == [called |-> handler.name, raised |-> handler.raises]

\* EventBus._safe_handle: the handler is run, what it raises is logged
_safe_handle(handler) == [called |-> handler.name, raised |-> FALSE]

\* s[-n:]
LastOf(s, n) == IF Len(s) > n THEN SubSeq(s, Len(s) - n + 1, Len(s)) ELSE s

\* EventBus.publish with whether it raised: the event closes the history, then
\* every handler of its type is run through _safe_handle
Published(b, event_type) ==
    LET handlers == IF event_type \in DOMAIN b.handlers THEN b.handlers[event_type] ELSE <<>>
        outcomes == [i \in DOMAIN handlers |-> _safe_handle(handlers[i])]
    IN  [raised |-> \E i \in DOMAIN outcomes : outcomes[i].raised,
         bus |-> [b EXCEPT !.history = LastOf(Append(@, event_type), max_history),
                           !.dispatched = IF handlers # <<>> THEN Append(@, event_type) ELSE @,
                           !.called = @ \o [i \in DOMAIN outcomes |-> outcomes[i].called]]]

\* EventBus.publish
publish(b, event_type) == Published(b, event_type).bus

\* EventBus.publish_sync: a name that is no EventType is logged and dropped
publish_sync(b, event_type_str) ==
    IF event_type_str \notin EventType THEN b ELSE publish(b, event_type_str)

(***************************************************************************)
(* The world directory: Location and LocationManager (core/locations.py)   *)
(* and the location index and move_agent of AgentManager (manager.py).     *)
(* A location name is a text.                                              *)
(***************************************************************************)
NoLocation == "none"

\* the order of LocationManager.locations
LocationOrder == <<"cafe", "home">>

Location(name, capacity, current_agents) ==
    [name |-> name, capacity |-> capacity, current_agents |-> current_agents]

\* Location.is_full
is_full(location) == Cardinality(location.current_agents) >= location.capacity

\* a in b for two texts
IsInfix(a, b) ==
    \E i \in 0..(Len(b) - Len(a)) : SubSeq(b, i + 1, i + Len(a)) = a

\* LocationManager.get_by_name: the first exact match, else the first partial one
get_by_name(locs, name) ==
    LET loaded == SelectSeq(LocationOrder, LAMBDA l : l \in DOMAIN locs)
        exact == SelectSeq(loaded, LAMBDA l : locs[l].name = name)
        partial == SelectSeq(loaded, LAMBDA l : IsInfix(name, locs[l].name)
                                                  \/ IsInfix(locs[l].name, name))
    IN  IF exact # <<>> THEN Head(exact)
        ELSE IF partial # <<>> THEN Head(partial)
        ELSE NoLocation

\* LocationManager.enter(agent_id, location_id) and LocationManager.leave(agent_id,
\* location_id): no location under location_id returns False; a location found
\* is asked for agent_enter or agent_leave, which Location does not have
LocationManager_enter(locs, agent_id, location_id) ==
    [raised |-> location_id \in DOMAIN locs, locations |-> locs]

LocationManager_leave(locs, agent_id, location_id) ==
    [raised |-> location_id \in DOMAIN locs, locations |-> locs]

\* AgentManager._add_to_location and _remove_from_location
_add_to_location(byloc, agent_id, location_id) ==
    [l \in DOMAIN byloc \cup {location_id} |->
        IF l = location_id
        THEN (IF l \in DOMAIN byloc THEN byloc[l] ELSE {}) \cup {agent_id}
        ELSE byloc[l]]

_remove_from_location(byloc, agent_id, location_id) ==
    IF location_id \in DOMAIN byloc THEN [byloc EXCEPT ![location_id] = @ \ {agent_id}]
    ELSE byloc

\* Agent.move_to: position.location_id is set
At(agent, location_id) == [agent EXCEPT !.position = location_id]

\* AgentManager.move_agent; it hands (location id, agent id) to the enter and
\* leave of the LocationManager, which take (agent id, location id)
move_agent(registered, locs, byloc, b, agent_id, new_location_id) ==
    LET refused == [success |-> FALSE, raised |-> FALSE, agents |-> registered,
                    locations |-> locs, by_location |-> byloc, bus |-> b]
    IN  IF agent_id \notin DOMAIN registered THEN refused
        ELSE IF new_location_id \notin DOMAIN locs THEN refused
        ELSE IF is_full(locs[new_location_id]) THEN refused
        ELSE LET old_location_id == registered[agent_id].position
                 moving == old_location_id # NoLocation
                 removed == IF moving
                            THEN _remove_from_location(byloc, agent_id, old_location_id)
                            ELSE byloc
                 left == IF moving THEN LocationManager_leave(locs, old_location_id, agent_id)
                         ELSE [raised |-> FALSE, locations |-> locs]
                 added == _add_to_location(removed, agent_id, new_location_id)
                 entered == LocationManager_enter(left.locations, new_location_id, agent_id)
             IN  IF left.raised
                 THEN [refused EXCEPT !.raised = TRUE, !.by_location = removed]
                 ELSE IF entered.raised
                 THEN [refused EXCEPT !.raised = TRUE, !.by_location = added]
                 ELSE [success |-> TRUE, raised |-> FALSE,
                       agents |-> [registered EXCEPT ![agent_id] = At(@, new_location_id)],
                       locations |-> entered.locations, by_location |-> added,
                       bus |-> publish_sync(b, "agent.moved")]

\* execute_decision: the thinking of the decision is stored first, then the
\* branch of the action runs
execute_decision(agent_id, registered, store, decision, t, locs, byloc, b) ==
    LET thought == [registered EXCEPT ![agent_id].current_action.thinking = decision.thinking]
        kept == [success |-> FALSE, raised |-> FALSE, agents |-> thought, store |-> store,
                 locations |-> locs, by_location |-> byloc, bus |-> b]
        act(type, minutes, importance) ==
            [kept EXCEPT !.success = TRUE,
                         !.agents = [thought EXCEPT ![agent_id] =
                                        set_action(@, type, minutes, decision.thinking, t)],
                         !.store = IF importance > 0
                                   THEN create_and_add(store, "event", importance, <<>>,
                                                       {"k1"}, t)
                                   ELSE store]
        \* set_action, then spend_money, then add_memory
        buy(type, minutes, amount, reason, importance) ==
            LET s == spend_money(set_action(thought[agent_id], type, minutes,
                                            decision.thinking, t),
                                 store, amount, reason, t)
            IN  [kept EXCEPT !.success = TRUE,
                             !.agents = [thought EXCEPT ![agent_id] = s.agent],
                             !.store = create_and_add(s.store, "event", importance, <<>>,
                                                      {"k1"}, t)]
    IN  IF decision.action = "move"
            THEN LET location == IF Truthy(decision.target)
                                 THEN get_by_name(locs, decision.target) ELSE NoLocation
                     m == move_agent(thought, locs, byloc, b, agent_id, location)
                 IN  IF location = NoLocation THEN kept
                     ELSE IF m.raised
                     THEN [kept EXCEPT !.raised = TRUE, !.by_location = m.by_location]
                     ELSE IF ~m.success THEN kept
                     ELSE [success |-> TRUE, raised |-> FALSE,
                           agents |-> [m.agents EXCEPT ![agent_id] =
                                          set_action(@, "move", 5, decision.thinking, t)],
                           store |-> create_and_add(store, "event", 2, <<>>, {"k1"}, t),
                           locations |-> m.locations, by_location |-> m.by_location,
                           bus |-> m.bus]
        ELSE IF decision.action = "work" THEN act("work", 60, 4)
        ELSE IF decision.action = "eat"
            THEN buy("eat", 30, Money(daily_expense_base) \div 3, <<"eat">>, 2)
        ELSE IF decision.action = "sleep" THEN act("sleep", 480, 2)
        ELSE IF decision.action = "rest" THEN act("rest", 30, 0)
        ELSE IF decision.action = "chat"
            THEN [act("chat", 15, 0) EXCEPT !.bus = publish_sync(b, "chat.requested")]
        ELSE IF decision.action = "shop"
            THEN buy("shop", 30, Money(daily_expense_base) \div 5, <<"shop">>, 3)
        ELSE IF decision.action = "entertainment" THEN act("entertainment", 60, 3)
        ELSE act("idle", 10, 0)

\* settings.daily_plan_start_hour: its default and its upper limit
DefaultPlanStartHour == 6
LatestPlanStartHour == 23

\* the scheduler after __init__: not running, no task, no plan date yet.
\* phase is the await the loop task stands at, queue the agents the daily-plan
\* trigger has still to serve, planned the agents it has served.
NewScheduler(registered) ==
    [phase |-> "wait", eligible |-> <<>>, pos |-> 1, snapshot |-> registered, at |-> 0,
     ticks |-> 0, error |-> FALSE, is_running |-> FALSE, task |-> "none",
     last_plan_date |-> NoDate, plan_start_hour |-> DefaultPlanStartHour,
     game_date |-> NoDate, queue |-> <<>>, planned |-> {}]

\* a scheduler under a configuration that sets the hour of the daily plan
Configured(s, plan_start_hour) == [s EXCEPT !.plan_start_hour = plan_start_hour]

(***************************************************************************)
(* ConversationManager (conversations/manager.py).  _active keeps the       *)
(* order in which the conversations were registered; a conversation is its *)
(* id, the ids of its two participants and its state.                      *)
(***************************************************************************)
Conversation(id, agent_a_id, agent_b_id) ==
    [id |-> id, participant_a |-> agent_a_id, participant_b |-> agent_b_id, state |-> "active"]

NoConversation == Conversation(0, "", "")

\* ConversationManager._max_history
_max_history == 100

\* d[key] = value on a dict
DictPut(d, key, value) ==
    [k \in DOMAIN d \cup {key} |-> IF k = key THEN value ELSE d[k]]


ConversationManager ==
    [active |-> <<>>, agents_in_conversation |-> <<>>, history |-> <<>>]

\* an id no conversation of the manager has
FreshConversationId(m) ==
    LET used == {m.active[i].id : i \in DOMAIN m.active}
                \cup {m.history[i].id : i \in DOMAIN m.history}
    IN  CHOOSE n \in 1..(Cardinality(used) + 1) : n \notin used

\* a create_conversation that does not look whether the agents are free
CreateUnchecked(m, agent_a_id, agent_b_id) ==
    LET conversation == Conversation(FreshConversationId(m), agent_a_id, agent_b_id)
    IN  [raised |-> FALSE, conversation |-> conversation,
         manager |-> [m EXCEPT !.active = Append(@, conversation),
                               !.agents_in_conversation =
                                   DictPut(DictPut(@, agent_a_id, conversation.id),
                                           agent_b_id, conversation.id)]]

\* ConversationManager.create_conversation: ValueError when one of the two is
\* in a conversation; else the conversation is registered under both agents
create_conversation(m, agent_a_id, agent_b_id) ==
    IF agent_a_id \in DOMAIN m.agents_in_conversation
       \/ agent_b_id \in DOMAIN m.agents_in_conversation
    THEN [raised |-> TRUE, conversation |-> NoConversation, manager |-> m]
    ELSE LET conversation == Conversation(FreshConversationId(m), agent_a_id, agent_b_id)
         IN  [raised |-> FALSE, conversation |-> conversation,
              manager |-> [m EXCEPT !.active = Append(@, conversation),
                                    !.agents_in_conversation =
                                        DictPut(DictPut(@, agent_a_id, conversation.id),
                                                agent_b_id, conversation.id)]]

\* ConversationManager.end_conversation: None for an id that is not active;
\* else the conversation leaves _active, both participants are popped and the
\* conversation closes the history, which keeps its last max_history entries
end_conversation(m, conversation_id, reason) ==
    IF ~\E i \in DOMAIN m.active : m.active[i].id = conversation_id
    THEN [found |-> FALSE, conversation |-> NoConversation, manager |-> m]
    ELSE LET c == m.active[CHOOSE i \in DOMAIN m.active : m.active[i].id = conversation_id]
             ended == [c EXCEPT !.state = IF reason = "interrupted" THEN "interrupted"
                                          ELSE "ended"]
             released == DOMAIN m.agents_in_conversation \ {c.participant_a, c.participant_b}
         IN  [found |-> TRUE, conversation |-> ended,
              manager |-> [active |-> SelectSeq(m.active, LAMBDA x : x.id # conversation_id),
                           agents_in_conversation |->
                               [a \in released |-> m.agents_in_conversation[a]],
                           history |-> LastOf(Append(m.history, ended), _max_history)]]

\* no location is loaded, no event was published
EmptyShared ==
    /\ bus = Subscribing(EventBus)
    /\ locations = <<>>
    /\ by_location = <<>>
    /\ last_event_check = 0
    /\ conversations = ConversationManager
    /\ recent_events = <<>>

\* no agent is registered and the scheduler never ticks
IdleWorld ==
    /\ agents = <<>>
    /\ pipe = <<>>
    /\ sched = NewScheduler(<<>>)
    /\ EmptyShared

(***************************************************************************)
(* AgentManager.get_agents_needing_decision (manager.py) and the           *)
(* DecisionScheduler (decision.py).  A tick of _run_loop takes the         *)
(* eligible agents batch by batch; the pipelines (_process_agent) of one   *)
(* batch run interleaved, one step at a time.                              *)
(***************************************************************************)
Agent(state, current_action, daily_plan) ==
    [state |-> state, current_action |-> current_action, daily_plan |-> daily_plan,
     position |-> NoLocation, balance |-> Money(initial_balance), daily_income |-> 0,
     daily_expense |-> 0]

\* the order of AgentManager._agents
AgentOrder == <<"a1", "a2", "a3">>

NeedsDecision(agent, t) ==
    /\ agent.state \notin {"sleeping", "paused", "offline"}
    /\ ~(agent.current_action.duration_minutes > 0 /\ ~is_complete(agent.current_action, t))

get_agents_needing_decision(registered, t) ==
    SelectSeq(AgentOrder, LAMBDA a : a \in DOMAIN registered /\ NeedsDecision(registered[a], t))

\* a slice that takes every agent from pos on
BatchToEnd(eligible, pos) == SubSeq(eligible, pos, Len(eligible))

\* agents[i:i + self.batch_size]
Batch(eligible, pos) == SubSeq(eligible, pos, Min2(pos + BatchSize - 1, Len(eligible)))

\* what llm_router.generate gave: a response with its content, or an exception
LLMResponse(content) == [kind |-> "content", content |-> content]

GenerateRaised == [kind |-> "raised", content |-> <<>>]

\* what should_react gave back before it has run
NoReact == [raised |-> FALSE, calls |-> 0, decision |-> NoDecision]

\* a pipeline that has not started
IdlePipe ==
    [pc |-> "idle", perception |-> Perception(<<>>, <<>>, NoText), react |-> NoReact,
     steps |-> {}, outcome |-> "none", pending |-> NoAction, replan |-> "none", blocks |-> 0,
     responses |-> <<>>]

\* a pipeline at its first step
StartedPipe == [IdlePipe EXCEPT !.pc = "perceive"]

\* an exception that leaves _process_agent
LetEscape(p) == [p EXCEPT !.pc = "done", !.outcome = "raised"]

\* except Exception at the end of _process_agent: the exception is logged
CatchInPipeline(p) == [p EXCEPT !.pc = "done", !.outcome = "caught"]

\* asyncio.gather(*tasks, return_exceptions=True): an exception of a task comes
\* back as its result, the gather itself does not raise
gather(outcomes) == FALSE

\* a gate on the reaction that never takes the interrupt branch
SkipReaction(decision) == "maybe_reflect"

\* a branch that goes from should_react to the decision request, past maybe_reflect
StraightToDecision(decision) ==
    IF decision.should_react /\ decision.reaction_type = "interrupt"
    THEN "execute_reaction" ELSE "decide"

\* the branch of _process_agent on the decision should_react returned
AfterReaction(decision) ==
    IF decision.should_react /\ decision.reaction_type = "interrupt"
    THEN "execute_reaction" ELSE "maybe_reflect"

Running(a) == a \in DOMAIN agents /\ sched.task = "live" /\ sched.phase = "batch"

\* world_clock.get_time().date() and .hour
game_date(t) == t \div SlotsPerDay

game_hour(t) == (t % SlotsPerDay) * (UnitMinutes \div 60)

\* a trigger that looks at the hour alone
DueByHour(last_plan_date, t, plan_start_hour) == game_hour(t) >= plan_start_hour

\* the condition of _check_daily_plan_trigger
plan_due(last_plan_date, t, plan_start_hour) ==
    last_plan_date # game_date(t) /\ game_hour(t) >= plan_start_hour

\* all_agents from the next agent on that is neither offline nor sleeping
RECURSIVE SkipResting(_, _)
SkipResting(queue, registered) ==
    IF queue = <<>> THEN queue
    ELSE IF registered[Head(queue)].state \in {"offline", "sleeping"}
    THEN SkipResting(Tail(queue), registered)
    ELSE queue

\* a generate_daily_plan that leaves the agent without a plan when it fails
NoPlanOnFailure(llm, plan_date) ==
    IF llm.kind = "plan" THEN DailyPlan(plan_date, llm.blocks, <<>>, <<>>) ELSE NoPlan

\* generate_daily_plan: the blocks of the reply, or an empty plan
generate_daily_plan(llm, plan_date) ==
    IF llm.kind = "plan" THEN DailyPlan(plan_date, llm.blocks, <<>>, <<>>)
    ELSE DailyPlan(plan_date, <<>>, <<>>, <<>>)

\* an except clause that takes every exception
CaughtAlways(exc) == TRUE

\* except Exception: asyncio.CancelledError derives from BaseException
CaughtAsException(exc) == exc # "CancelledError"

\* Task.cancel() on the task of a pipeline: CancelledError at its await
CancelPipeline(p) ==
    IF p.pc \in {"idle", "done"} THEN p
    ELSE IF CaughtAsException("CancelledError") THEN CatchInPipeline(p)
    ELSE [p EXCEPT !.pc = "done", !.outcome = "cancelled"]

\* DecisionScheduler.start
Start ==
    /\ ~sched.is_running
    /\ sched' = [sched EXCEPT !.is_running = TRUE, !.task = "live", !.phase = "wait"]
    /\ UNCHANGED <<now, memory, ret, agents, pipe, shared>>

\* a stop that clears the flag and leaves the loop task alone
StopFlagOnly ==
    /\ sched' = [sched EXCEPT !.is_running = FALSE]
    /\ UNCHANGED <<now, memory, ret, agents, pipe, shared>>

\* DecisionScheduler.stop and the CancelledError it throws into the loop task,
\* which stands at an await: the sleep, the gather of a batch, or the
\* generate_daily_plan of the trigger, where except Exception surrounds the await
Stop ==
    /\ LET s == [sched EXCEPT !.is_running = FALSE]
           swallowed == sched.phase = "plan" /\ CaughtAsException("CancelledError")
       IN  IF sched.task # "live" THEN sched' = s /\ UNCHANGED pipe
           ELSE /\ sched' = IF swallowed THEN s
                            ELSE [s EXCEPT !.task = "ended", !.phase = "exited",
                                           !.queue = <<>>, !.planned = {}]
                /\ pipe' = IF sched.phase = "batch"
                           THEN [a \in DOMAIN pipe |-> CancelPipeline(pipe[a])]
                           ELSE pipe
    /\ UNCHANGED <<now, memory, ret, agents, shared>>

\* the pass from get_agents_needing_decision to the gather of the first batch
StartBatches(s, registered) ==
    LET eligible == get_agents_needing_decision(registered, now)
    IN  /\ sched' = [s EXCEPT !.phase = IF eligible = <<>> THEN "wait" ELSE "batch",
                              !.eligible = eligible, !.pos = 1, !.snapshot = registered,
                              !.at = now]
        /\ pipe' = [a \in DOMAIN registered |->
                       IF a \in Range(Batch(eligible, 1)) THEN StartedPipe ELSE IdlePipe]

\* the end of _check_daily_plan_trigger, then the rest of the pass
PlansDone(s, registered) ==
    /\ bus' = publish_sync(bus, "daily_plan.generated")
    /\ StartBatches([s EXCEPT !.last_plan_date = s.game_date], registered)

\* one pass of the while loop of _run_loop up to its first await: a
\* generate_daily_plan of the trigger, the gather of the first batch, or the sleep
Tick ==
    /\ sched.task = "live" /\ sched.is_running /\ sched.phase = "wait"
    /\ LET s == [sched EXCEPT !.ticks = @ + 1, !.error = FALSE]
       IN  IF plan_due(sched.last_plan_date, now, sched.plan_start_hour)
           THEN LET all_agents == SelectSeq(AgentOrder, LAMBDA a : a \in DOMAIN agents)
                    queue == SkipResting(all_agents, agents)
                    fired == [s EXCEPT !.game_date = game_date(now), !.queue = queue,
                                       !.planned = {}]
                IN  IF queue = <<>> THEN PlansDone(fired, agents)
                    ELSE /\ sched' = [fired EXCEPT !.phase = "plan"]
                         /\ UNCHANGED <<pipe, bus>>
           ELSE StartBatches(s, agents) /\ UNCHANGED bus
    /\ UNCHANGED <<now, memory, ret, agents, locations, by_location, last_event_check>>

\* a generate_daily_plan of the trigger returns: the plan is stored and the
\* trigger goes on to its next await or ends
GenerateDailyPlan(llm) ==
    /\ sched.task = "live" /\ sched.phase = "plan"
    /\ LET a == Head(sched.queue)
           registered == [agents EXCEPT ![a].daily_plan = generate_daily_plan(llm, sched.game_date)]
           queue == SkipResting(Tail(sched.queue), registered)
           s == [sched EXCEPT !.queue = queue, !.planned = @ \cup {a}]
       IN  /\ agents' = registered
           /\ IF queue = <<>> THEN PlansDone(s, registered)
              ELSE sched' = s /\ UNCHANGED <<pipe, bus>>
    /\ UNCHANGED <<now, memory, ret, locations, by_location, last_event_check>>

\* the gather of a batch returns: the next batch starts, or the loop sleeps
BatchEnd ==
    /\ sched.task = "live" /\ sched.phase = "batch"
    /\ \A a \in Range(Batch(sched.eligible, sched.pos)) : pipe[a].pc = "done"
    /\ LET nxt == sched.pos + BatchSize
       IN  IF gather({pipe[a].outcome : a \in Range(Batch(sched.eligible, sched.pos))})
           THEN /\ sched' = [sched EXCEPT !.phase = "wait", !.error = TRUE]
                /\ UNCHANGED pipe
           ELSE IF nxt > Len(sched.eligible)
           THEN /\ sched' = [sched EXCEPT !.phase = "wait"]
                /\ UNCHANGED pipe
           ELSE /\ sched' = [sched EXCEPT !.pos = nxt]
                /\ pipe' = [a \in DOMAIN pipe |->
                               IF a \in Range(Batch(sched.eligible, nxt))
                               THEN StartedPipe ELSE pipe[a]]
    /\ UNCHANGED <<now, memory, ret, agents, shared>>

\* perceive_environment(agent): PerceptionSystem.perceive reads the cutoff of
\* the new events from _last_event_check and moves it to the present
Perceive(a, p) ==
    /\ Running(a) /\ pipe[a].pc = "perceive"
    /\ pipe' = [pipe EXCEPT ![a] = [@ EXCEPT !.pc = "should_react", !.perception = p,
                                             !.steps = @ \cup {"perceive"}]]
    /\ last_event_check' = now
    /\ UNCHANGED <<now, memory, ret, agents, sched, bus, locations, by_location>>

\* the plan argument, should_react and the branch on its decision
ShouldReact(a, llm) ==
    /\ Running(a) /\ pipe[a].pc = "should_react"
    /\ LET agent == agents[a]
           task == IF agent.daily_plan.exists THEN get_current_task(agent.daily_plan, now)
                   ELSE NoBlock
           current_plan_desc == IF task # NoBlock THEN [tag |-> "str"] ELSE [tag |-> "none"]
           r == should_react(agent, pipe[a].perception, current_plan_desc, llm, now)
           d == r.decision
           noted == ~r.raised /\ d.should_react /\ d.reaction_type = "note" /\ Truthy(d.reaction)
           p1 == [pipe[a] EXCEPT !.react = r, !.steps = @ \cup {"should_react"}]
       IN  /\ pipe' = [pipe EXCEPT ![a] = IF r.raised THEN CatchInPipeline(p1)
                                          ELSE [p1 EXCEPT !.pc = AfterReaction(d)]]
           /\ memory' = IF noted
                        THEN [memory EXCEPT ![a] = create_and_add(@, "event", 3, <<>>, {"k1"}, now)]
                        ELSE memory
    /\ UNCHANGED <<now, ret, agents, sched, shared>>

\* execute_reaction, the activity log, the "agent.reacted" event and the return
ExecuteReaction(a, replan_llm) ==
    /\ Running(a) /\ pipe[a].pc = "execute_reaction"
    /\ LET r == execute_reaction(agents[a], memory[a], pipe[a].react.decision, replan_llm, now)
       IN  /\ memory' = [memory EXCEPT ![a] = r.store]
           /\ agents' = [agents EXCEPT ![a].daily_plan = r.plan]
           /\ pipe' = [pipe EXCEPT ![a] =
                         [@ EXCEPT !.pc = "done", !.outcome = "returned",
                                   !.steps = @ \cup {"execute_reaction", "log_activity", "publish"},
                                   !.replan = r.replan, !.blocks = r.blocks]]
    /\ bus' = publish_sync(bus, "agent.reacted")
    /\ UNCHANGED <<now, ret, sched, locations, by_location, last_event_check>>

\* maybe_reflect(agent) and the activity log of a reflection
Reflect(a, question_llm, insight_llm, insight_kw) ==
    /\ Running(a) /\ pipe[a].pc = "maybe_reflect"
    /\ LET r == maybe_reflect(memory[a], question_llm, insight_llm, insight_kw, now)
       IN  /\ memory' = [memory EXCEPT ![a] = r.store]
           /\ pipe' = [pipe EXCEPT ![a] =
                         [@ EXCEPT !.pc = "decide",
                                   !.steps = @ \cup {"maybe_reflect"}
                                               \cup (IF r.ran THEN {"reflection"} ELSE {})]]
    /\ UNCHANGED <<now, ret, agents, sched, shared>>

(***************************************************************************)
(* The reply of the inference service and the JSON in it (decision.py).    *)
(* A reply is a sequence of tokens: "{", "}", a code fence, a word of      *)
(* prose, the number 7, and the members "action", "target" and "thinking"  *)
(* of an object written together.  Inside an object a nested "{ ... }"     *)
(* stands for a member whose value is an object.  White space and the      *)
(* commas are left out.                                                    *)
(***************************************************************************)
Tok(t, action, target, thinking) ==
    [t |-> t, action |-> action, target |-> target, thinking |-> thinking]

Open == Tok("{", NoText, NoText, NoText)

Close == Tok("}", NoText, NoText, NoText)

Fence == Tok("fence", NoText, NoText, NoText)

Prose == Tok("x", NoText, NoText, NoText)

Number == Tok("7", NoText, NoText, NoText)

\* "action": action, "target": target, "thinking": thinking; NoText is null
Fields(action, target, thinking) == Tok("fields", action, target, thinking)

\* an object without the three members
NoFields == Tok("none", NoText, NoText, NoText)

JsonValue(kind, members, fields) == [kind |-> kind, members |-> members, fields |-> fields]

\* json.loads raised JSONDecodeError
DecodeError == JsonValue("error", 0, NoFields)

\* the None of extract_json_from_response
JsonNone == JsonValue("none", 0, NoFields)

\* the braces opened and not closed in the first i tokens
Depth(s, i) ==
    Cardinality({j \in 1..i : s[j] = Open}) - Cardinality({j \in 1..i : s[j] = Close})

\* the text is one object: it opens, closes at its last token and not before,
\* and holds members only
IsObject(s) ==
    /\ Len(s) >= 2
    /\ s[1] = Open /\ s[Len(s)] = Close
    /\ \A i \in 1..Len(s) : s[i].t \in {"{", "}", "fields"}
    /\ \A i \in 1..(Len(s) - 1) : Depth(s, i) >= 1
    /\ Depth(s, Len(s)) = 0

\* json.loads: a number, or an object with its members (of a member written
\* twice the last one counts), or JSONDecodeError
loads(s) ==
    IF s = <<Number>> THEN JsonValue("number", 0, NoFields)
    ELSE IF IsObject(s)
    THEN LET own == {i \in 1..Len(s) : s[i].t = "fields" /\ Depth(s, i) = 1}
             nested == {i \in 2..Len(s) : s[i] = Open /\ Depth(s, i) = 2}
             last == CHOOSE i \in own : \A j \in own : j <= i
         IN  JsonValue("object", Cardinality(own) + Cardinality(nested),
                       IF own = {} THEN NoFields ELSE s[last])
    ELSE DecodeError

\* re.findall(code_block_pattern, response): the texts between the first and
\* the second fence, the third and the fourth, and so on
CodeBlocks(response) ==
    LET fences == SelectSeq([i \in 1..Len(response) |-> i], LAMBDA i : response[i] = Fence)
    IN  [k \in 1..(Len(fences) \div 2) |->
            SubSeq(response, fences[2 * k - 1] + 1, fences[2 * k] - 1)]

\* re.findall(json_pattern, response): from the first "{" to the first "}" after it,
\* then the same in the rest of the text
RECURSIVE BraceSpans(_, _)
BraceSpans(response, from) ==
    LET opens == {i \in from..Len(response) : response[i] = Open}
        i == CHOOSE k \in opens : \A m \in opens : k <= m
        closes == {j \in (i + 1)..Len(response) : response[j] = Close}
        j == CHOOSE k \in closes : \A m \in closes : k <= m
    IN  IF opens = {} THEN <<>>
        ELSE IF closes = {} THEN <<>>
        ELSE <<SubSeq(response, i, j)>> \o BraceSpans(response, j + 1)

\* for match in matches: try: return json.loads(match) except: continue
RECURSIVE FirstParsed(_)
FirstParsed(matches) ==
    IF matches = <<>> THEN JsonNone
    ELSE IF loads(Head(matches)) # DecodeError THEN loads(Head(matches))
    ELSE FirstParsed(Tail(matches))

\* the regex scan before the fenced blocks
ScanBeforeBlocks(response) ==
    IF loads(response) # DecodeError THEN loads(response)
    ELSE IF FirstParsed(BraceSpans(response, 1)) # JsonNone
    THEN FirstParsed(BraceSpans(response, 1))
    ELSE FirstParsed(CodeBlocks(response))

extract_json_from_response(response) ==
    IF loads(response) # DecodeError THEN loads(response)
    ELSE IF FirstParsed(CodeBlocks(response)) # JsonNone
    THEN FirstParsed(CodeBlocks(response))
    ELSE FirstParsed(BraceSpans(response, 1))

\* "if json_data:": None and the empty object are false
JsonTruthy(json_data) ==
    \/ json_data.kind = "number"
    \/ json_data.kind = "object" /\ json_data.members > 0

\* str.upper on the action names a reply uses
upper(str) ==
    CASE str \in {"move", "Move", "MOVE"} -> "MOVE"
      [] str \in {"work", "Work", "WORK"} -> "WORK"
      [] str \in {"sleep", "Sleep", "SLEEP"} -> "SLEEP"
      [] str \in {"rest", "Rest", "REST"} -> "REST"
      [] str \in {"wait", "Wait", "WAIT"} -> "WAIT"
      [] str \in {"idle", "Idle", "IDLE"} -> "IDLE"
      [] OTHER -> str

action_mapping ==
    [k \in {"MOVE", "WORK", "EAT", "SLEEP", "REST", "CHAT", "SHOP", "EXERCISE",
            "ENTERTAINMENT", "IDLE", "WAIT"} |->
        CASE k = "MOVE" -> "move" [] k = "WORK" -> "work" [] k = "EAT" -> "eat"
          [] k = "SLEEP" -> "sleep" [] k = "REST" -> "rest" [] k = "CHAT" -> "chat"
          [] k = "SHOP" -> "shop" [] k = "EXERCISE" -> "exercise"
          [] k = "ENTERTAINMENT" -> "entertainment" [] k = "IDLE" -> "idle"
          [] k = "WAIT" -> "waiting"]

\* Decision.from_json: data.get raises on a value that is no object, upper on
\* an action that is no string; an action outside the mapping is IDLE
from_json(data) ==
    LET absent == data.fields = NoFields
        action_str == IF absent THEN "IDLE" ELSE upper(data.fields.action[1])
    IN  IF data.kind # "object" \/ (~absent /\ data.fields.action = NoText)
        THEN [raised |-> TRUE, decision |-> NoAction]
        ELSE [raised |-> FALSE,
              decision |-> [action |-> IF action_str \in DOMAIN action_mapping
                                       THEN action_mapping[action_str] ELSE "idle",
                            target |-> IF absent THEN NoText ELSE data.fields.target,
                            thinking |-> IF absent THEN <<"">> ELSE data.fields.thinking]]

retry_count == 2

\* one pass of the loop of make_decision: the attempt gives a Decision when the
\* call returned, the JSON taken from it is true and from_json built one
attempt(response) ==
    LET json_data == extract_json_from_response(response.content)
    IN  IF response.kind = "content" /\ JsonTruthy(json_data)
        THEN [ok |-> ~from_json(json_data).raised, decision |-> from_json(json_data).decision]
        ELSE [ok |-> FALSE, decision |-> NoAction]

\* make_decision: the loop over range(retry_count + 1), responses[n] being what
\* the n-th call of the inference service gives; None after the last attempt
RECURSIVE attempts(_, _)
attempts(responses, n) ==
    IF n > retry_count + 1 THEN [decision |-> NoAction, calls |-> retry_count + 1]
    ELSE IF attempt(responses[n]).ok
    THEN [decision |-> attempt(responses[n]).decision, calls |-> n]
    ELSE attempts(responses, n + 1)

make_decision(responses) == attempts(responses, 1)

\* the completion of the current action, then make_decision; the pipeline
\* keeps the responses make_decision took
RequestDecision(a, responses) ==
    /\ Running(a) /\ pipe[a].pc = "decide"
    /\ LET agent == agents[a]
           completes == agent.current_action.duration_minutes > 0
                            /\ is_complete(agent.current_action, now)
           r == make_decision(responses)
       IN  /\ agents' = [agents EXCEPT ![a] = IF completes THEN complete_action(agent, now)
                                              ELSE agent]
           /\ pipe' = [pipe EXCEPT ![a] =
                         [@ EXCEPT !.pc = IF r.decision = NoAction THEN "done" ELSE "execute",
                                   !.outcome = IF r.decision = NoAction THEN "returned" ELSE @,
                                   !.pending = r.decision,
                                   !.responses = SubSeq(responses, 1, r.calls),
                                   !.steps = @ \cup {"decide"}
                                               \cup (IF completes THEN {"complete"} ELSE {})]]
    /\ UNCHANGED <<now, memory, ret, sched, shared>>

\* execute_decision, the activity log and the "agent.decided" event
ExecuteDecision(a) ==
    /\ Running(a) /\ pipe[a].pc = "execute"
    /\ LET r == execute_decision(a, agents, memory[a], pipe[a].pending, now,
                                 locations, by_location, bus)
       IN  /\ agents' = r.agents
           /\ memory' = [memory EXCEPT ![a] = r.store]
           /\ locations' = r.locations
           /\ by_location' = r.by_location
           /\ IF r.raised
              THEN /\ pipe' = [pipe EXCEPT ![a] =
                                 CatchInPipeline([@ EXCEPT !.steps = @ \cup {"execute"}])]
                   /\ bus' = r.bus
              ELSE /\ pipe' = [pipe EXCEPT ![a] =
                                 [@ EXCEPT !.pc = "done", !.outcome = "returned",
                                           !.pending = NoAction,
                                           !.responses = <<>>,
                                           !.steps = @ \cup {"execute", "log_activity",
                                                             "publish"}]]
                   /\ bus' = publish_sync(r.bus, "agent.decided")
    /\ UNCHANGED <<now, ret, sched, last_event_check>>

\* a step of the pipeline raises an exception of its own
StepRaises(a) ==
    /\ Running(a)
    /\ pipe[a].pc \in {"perceive", "execute_reaction", "maybe_reflect", "decide", "execute"}
    /\ pipe' = [pipe EXCEPT ![a] = CatchInPipeline([@ EXCEPT !.steps = @ \cup {pipe[a].pc}])]
    /\ UNCHANGED <<now, memory, ret, agents, sched, shared>>

\* llm_router.generate awaits the adapter without a timeout: a call of
\* make_decision that the service never answers leaves the pipeline waiting
InferenceHangs(a) ==
    /\ Running(a) /\ pipe[a].pc = "decide"
    /\ pipe' = [pipe EXCEPT ![a] = [@ EXCEPT !.pc = "hung", !.steps = @ \cup {"decide"}]]
    /\ UNCHANGED <<now, memory, ret, agents, sched, shared>>

(***************************************************************************)
(* The inputs of the memory-store specification.                           *)
(***************************************************************************)
Line(q, kw) == [q |-> q, kw |-> kw]

QuestionReplies ==
    { [ok |-> FALSE, lines |-> <<>>],
      [ok |-> TRUE, lines |-> <<>>],
      [ok |-> TRUE, lines |-> <<Line(FALSE, {"k1"})>>],
      [ok |-> TRUE, lines |-> <<Line(TRUE, {"k1"})>>],
      [ok |-> TRUE, lines |-> <<Line(TRUE, {"k1"}), Line(FALSE, {}), Line(TRUE, {"k2"})>>],
      [ok |-> TRUE, lines |-> <<Line(TRUE, {}), Line(TRUE, {"k1"}), Line(TRUE, {"k2"}),
                                Line(TRUE, {"k1", "k2"})>>] }

InsightReplies ==
    { <<"text", "text", "text">>, <<"fail", "fail", "fail">>,
      <<"fail", "text", "empty">>, <<"empty", "fail", "text">> }

MemInit ==
    /\ now = 0
    /\ memory = [a \in AgentIds |-> MemoryManager(MaxMemories)]
    /\ ret = Ret("init", FALSE, NoResult)
    /\ IdleWorld

\* a saved list: a dict that cannot be read, then possibly a memory saved earlier
SavedLists(store, t) ==
    { <<BadDict>>,
      <<BadDict, to_dict(Memory(FreshId(store), "event", 5, t, <<>>, {"k1"}))>> }

MemNext ==
    \/ \E in \in {<<5, <<>>>>, <<10, <<"a2">>>>} :
            CreateAndAdd("a1", "event", in[1], in[2], {"k1"})
    \/ \E data \in SavedLists(memory["a1"], now) : LoadFromList("a1", data)
    \/ \E id \in MemoryIds(memory["a1"]) \cup {MaxMemories + 2} : Remove("a1", id)
    \/ \E id \in MemoryIds(memory["a1"]) : Get("a1", id)
    \/ RetrieveRecent("a1")
    \/ \E q \in {{}, {"k1"}} : RetrieveRelevant("a1", q)
    \/ Clear("a1")
    \/ \E ql \in QuestionReplies :
         \E il \in {r \in InsightReplies : Len(ql.lines) > 2 \/ r[2] = "text"} :
            RunReflection("a1", ql, il, {"k2"})

SpecMem == MemInit /\ [][MemNext /\ UNCHANGED world /\ MemBounds']_vars

(***************************************************************************)
(* C1: after every add, create_and_add and load_from_list the store holds  *)
(* at most max_memories memories, and none of these calls raises.          *)
(***************************************************************************)
C1_CountWithinCapacity ==
    /\ \A a \in AgentIds : count(memory[a]) <= memory[a].max_memories
    /\ ret.op \in {"create_and_add", "load_from_list"} => ~ret.raised

\* a load into a store at capacity: a memory was evicted and the store is full again
C1_Witness ==
    /\ ret.op = "load_from_list"
    /\ count(memory["a1"]) = memory["a1"].max_memories
    /\ memory["a1"].accumulated_importance >= 5 * (MaxMemories + 1)
    /\ MaxMemories + 1 \in MemoryIds(memory["a1"])

ReflectInit ==
    /\ now = 0
    /\ memory = [a \in AgentIds |-> MemoryManager(ReflectCapacity)]
    /\ ret = Ret("init", FALSE, NoResult)
    /\ IdleWorld

ReflectNext ==
    \/ AdvanceClock
    \/ CreateAndAdd("a1", "event", 10, <<>>, {"k1"})
    \/ \E ql \in QuestionReplies :
         \E il \in {r \in InsightReplies : Len(ql.lines) > 2 \/ r[2] = "text"} :
            MaybeReflect("a1", ql, il, {"k2"})
    \/ Clear("a1")

SpecReflect ==
    ReflectInit /\ [][ReflectNext /\ UNCHANGED world /\ ReflectBounds']_vars

(***************************************************************************)
(* C4: a run_reflection that obtains no question (the inference call       *)
(* fails, no line of its output holds a question mark, or the store is     *)
(* empty) returns an empty result and leaves accumulated_importance,       *)
(* last_reflection_time and the stored memories as they were, so           *)
(* should_reflect is still true afterwards.                                *)
(***************************************************************************)
C4_AbortLeavesStore ==
    /\ [](ret.op = "run_reflection" /\ ret.questions = 0
            => /\ ret.insights = 0 /\ ret.memories_created = 0
               /\ should_reflect(memory["a1"]))
    /\ [][ret'.op = "run_reflection" /\ ret'.questions = 0 => memory' = memory]_vars

\* a reflection over a store with memories was aborted; the counter still asks for one
C4_Witness ==
    /\ ret.op = "run_reflection" /\ ret.questions = 0
    /\ count(memory["a1"]) > 0
    /\ memory["a1"].accumulated_importance >= ReflectionThreshold

(***************************************************************************)
(* C5: should_reflect holds exactly when accumulated_importance is at      *)
(* least the threshold of 150; when a run_reflection that produced a       *)
(* question returns, accumulated_importance is 0 and should_reflect is     *)
(* false, however many Reflection memories the run added.                  *)
(***************************************************************************)
C5_ReflectionResetsCounter ==
    /\ \A a \in AgentIds :
           should_reflect(memory[a]) <=> memory[a].accumulated_importance >= ReflectionThreshold
    /\ ret.op = "run_reflection" /\ ret.questions > 0
           => /\ memory["a1"].accumulated_importance = 0
              /\ ~should_reflect(memory["a1"])

\* a reflection at the threshold added two Reflection memories and reset the counter
C5_Witness ==
    /\ ret.op = "run_reflection" /\ ret.questions >= 2 /\ ret.memories_created >= 2
    /\ memory["a1"].accumulated_importance = 0
    /\ memory["a1"].last_reflection_time # NoTime

(***************************************************************************)
(* The pipeline specification: one registered agent, with every kind of    *)
(* perception and of inference reply.                                      *)
(***************************************************************************)
ReactReply(kind, flag, reaction_type, reaction) ==
    [kind |-> kind, should_react |-> flag, reaction_type |-> reaction_type,
     reaction |-> reaction]

ReactReplies ==
    { ReactReply("fail", FALSE, "", NoText),
      ReactReply("unparsable", FALSE, "", NoText),
      ReactReply("bad_json", FALSE, "", NoText),
      ReactReply("json", TRUE, "Interrupt", <<"help">>),
      ReactReply("json", TRUE, "interrupt", NoText),
      ReactReply("json", FALSE, "interrupt", <<"help">>),
      ReactReply("json", TRUE, "note", <<"seen">>),
      ReactReply("json", TRUE, "NOTE", <<"">>),
      ReactReply("json", FALSE, "continue", NoText),
      ReactReply("json", TRUE, "dance", <<"help">>) }

ReplanReply(kind, blocks) == [kind |-> kind, blocks |-> blocks]

ReplanReplies ==
    { ReplanReply("fail", <<>>), ReplanReply("unparsable", <<>>),
      ReplanReply("no_key", <<>>), ReplanReply("bad_item", <<>>),
      ReplanReply("plan", <<>>), ReplanReply("plan", <<PlanBlock(Hour(0), Hour(24), "help")>>) }

Perceptions ==
    { Perception(<<>>, <<>>, NoText),
      Perception(<<"a2">>, <<>>, NoText),
      Perception(<<>>, <<"e1">>, NoText),
      Perception(<<"a2">>, <<>>, <<"a2">>) }

DecisionOf(action, target, thinking) ==
    [action |-> action, target |-> target, thinking |-> thinking]

\* a reply that is one object with the three members
Says(action, target, thinking) == LLMResponse(<<Open, Fields(<<action>>, target, thinking), Close>>)

\* three calls that all give the same
Thrice(response) == <<response, response, response>>

\* the replies to the decision prompt: three failed calls, or a decision
DecisionReplies ==
    { Thrice(GenerateRaised), Thrice(Says("REST", NoText, NoText)),
      Thrice(Says("sleep", NoText, NoText)), Thrice(Says("MOVE", <<"nowhere">>, NoText)),
      Thrice(Says("move", <<"cafe">>, NoText)), Thrice(Says("dance", NoText, NoText)) }

\* a town of one cafe with room for one and nobody in it
OneCafe ==
    /\ bus = Subscribing(EventBus)
    /\ locations = [l \in {"cafe"} |-> Location(<<"cafe">>, 1, {})]
    /\ by_location = [l \in {"cafe"} |-> {}]
    /\ last_event_check = 0
    /\ conversations = ConversationManager
    /\ recent_events = <<>>

\* a store whose counter stands at the reflection threshold
RECURSIVE Seeded(_, _, _)
Seeded(store, n, t) ==
    IF n = 0 THEN store
    ELSE Seeded(create_and_add(store, "event", 10, <<>>, {"k1"}, t), n - 1, t)

\* the plans of the day: none, or one with no block for the first time unit
Plans ==
    { NoPlan,
      DailyPlan(0, <<PlanBlock(Hour(8), Hour(24), "work")>>,
                <<PlanBlock(Hour(8), Hour(16), "code")>>, <<>>) }

PipeInit ==
    /\ now = 0
    /\ \E store \in {MemoryManager(MaxMemories),
                     Seeded(MemoryManager(MaxMemories), ReflectionThreshold \div 10, 0)} :
          memory = [a \in AgentIds |-> IF a = "a1" THEN store ELSE MemoryManager(MaxMemories)]
    /\ ret = Ret("init", FALSE, NoResult)
    /\ \E plan \in Plans :
          agents = [a \in {"a1"} |-> Agent("active", CurrentAction("idle", 0, 0), plan)]
    /\ pipe = [a \in {"a1"} |-> IdlePipe]
    /\ sched = Configured(NewScheduler(agents), LatestPlanStartHour)
    /\ OneCafe

PipeNext ==
    \/ AdvanceClock /\ UNCHANGED world
    \/ Start
    \/ Tick
    \/ BatchEnd
    \/ \E p \in Perceptions : Perceive("a1", p)
    \/ \E llm \in ReactReplies : ShouldReact("a1", llm)
    \/ \E llm \in ReplanReplies : ExecuteReaction("a1", llm)
    \/ \E ql \in {q \in QuestionReplies : Len(q.lines) \in {0, 3}} :
            Reflect("a1", ql, <<"text", "fail", "text">>, {"k2"})
    \/ \E responses \in DecisionReplies : RequestDecision("a1", responses)
    \/ ExecuteDecision("a1")
    \/ StepRaises("a1")

SpecPipe == PipeInit /\ [][PipeNext /\ UNCHANGED <<conversations, recent_events>> /\ sched'.ticks <= MaxTicks]_vars

(***************************************************************************)
(* The scheduler specification: three registered agents in batches, loaded *)
(* in every state and with actions under way.                              *)
(***************************************************************************)
LoadedAgents ==
    { Agent("active", CurrentAction("idle", 0, 0), NoPlan),
      Agent("busy", CurrentAction("work", 60, 0), NoPlan),
      Agent("sleeping", CurrentAction("sleep", 480, 0), NoPlan),
      Agent("paused", CurrentAction("idle", 0, 0), NoPlan),
      Agent("offline", CurrentAction("idle", 0, 0), NoPlan) }

SchedInit ==
    /\ now = 0
    /\ memory = [a \in AgentIds |-> MemoryManager(MaxMemories)]
    /\ ret = Ret("init", FALSE, NoResult)
    /\ agents \in {f \in [AgentIds -> LoadedAgents] :
                        /\ f["a1"].state \in {"active", "paused"}
                        /\ f["a2"].state \in {"active", "busy"}
                        /\ f["a3"].state \in {"active", "sleeping", "offline"}}
    /\ pipe = [a \in AgentIds |-> IdlePipe]
    /\ sched = Configured(NewScheduler(agents), LatestPlanStartHour)
    /\ EmptyShared

SchedNext ==
    \/ AdvanceClock /\ UNCHANGED world
    \/ Start
    \/ Tick
    \/ BatchEnd
    \/ \E p \in {Perception(<<>>, <<>>, NoText), Perception(<<"a2">>, <<>>, <<"a2">>)} :
            Perceive("a1", p)
    \/ \E a \in AgentIds \ {"a1"} : Perceive(a, Perception(<<>>, <<>>, NoText))
    \/ \E a \in AgentIds : StepRaises(a)
    \/ \E a \in AgentIds :
        \/ ShouldReact(a, ReactReply("fail", FALSE, "", NoText))
        \/ ExecuteReaction(a, ReplanReply("fail", <<>>))
        \/ Reflect(a, [ok |-> FALSE, lines |-> <<>>], <<"fail", "fail", "fail">>, {"k2"})
        \/ \E response \in {GenerateRaised, Says("WORK", NoText, NoText)} :
                RequestDecision(a, Thrice(response))
        \/ ExecuteDecision(a)

SpecSched == SchedInit /\ [][SchedNext /\ UNCHANGED <<conversations, recent_events>> /\ sched'.ticks <= SchedTicks]_vars

(***************************************************************************)
(* C2: an exception raised in one agent's pipeline is caught inside that   *)
(* pipeline: no task ends with an exception, the scheduler loop sees no    *)
(* error, and when the tick's batches are over the pipeline of every       *)
(* eligible agent, of the same batch and of the later ones, has ended.     *)
(***************************************************************************)
C2_ExceptionsStayInPipeline ==
    /\ ~sched.error
    /\ \A a \in DOMAIN pipe : pipe[a].outcome # "raised"
    /\ \A a \in DOMAIN pipe : pipe[a].pc = "done" => pipe[a].outcome \in {"returned", "caught"}
    /\ sched.phase = "wait" /\ sched.ticks > 0
          => \A a \in Range(sched.eligible) : pipe[a].pc = "done"

\* a1's pipeline raised; a2 of the same batch and a3 of the next one ran to their end
C2_Witness ==
    /\ sched.phase = "wait" /\ sched.eligible = <<"a1", "a2", "a3">>
    /\ pipe["a1"].outcome = "caught"
    /\ pipe["a2"].outcome = "returned" /\ "execute" \in pipe["a2"].steps
    /\ pipe["a3"].outcome = "returned" /\ "execute" \in pipe["a3"].steps

(***************************************************************************)
(* C10: the agents given a pipeline in a tick are exactly those whose      *)
(* state, when the tick began, was not sleeping, paused or offline and     *)
(* whose current action had a declared duration of zero or had run for at  *)
(* least its declared duration.                                            *)
(***************************************************************************)
C10_EligibleExactly ==
    sched.ticks > 0 =>
        LET was == sched.snapshot
            expected == {a \in DOMAIN was :
                            /\ was[a].state \notin {"sleeping", "paused", "offline"}
                            /\ \/ was[a].current_action.duration_minutes = 0
                               \/ (sched.at - was[a].current_action.started_at) * UnitMinutes
                                      >= was[a].current_action.duration_minutes}
            given == {a \in DOMAIN pipe : pipe[a].pc # "idle"}
        IN  /\ given \subseteq expected
            /\ sched.phase = "wait" => given = expected

\* a tick after the clock moved: the agent whose work had run its time got a
\* pipeline, the sleeping agent got none
C10_Witness ==
    /\ sched.ticks > 0 /\ sched.phase = "wait" /\ sched.at = 1
    /\ sched.snapshot["a2"].current_action.duration_minutes = 60
    /\ pipe["a2"].pc = "done"
    /\ sched.snapshot["a3"].state = "sleeping" /\ pipe["a3"].pc = "idle"
    /\ pipe["a1"].pc = "done"

C7_ShortCutsWithoutInference ==
    \A a \in DOMAIN pipe :
        "should_react" \in pipe[a].steps =>
            LET p == pipe[a].perception
                r == pipe[a].react
            IN  /\ (p.agents_nearby = <<>> /\ p.new_events = <<>> /\ ~p.being_addressed
                        /\ p.notable_changes = <<>>)
                      => r.calls = 0 /\ ~r.raised /\ r.decision.reaction_type = "continue"
                /\ p.being_addressed
                      => /\ r.calls = 0 /\ ~r.raised
                         /\ r.decision.reaction_type = "interrupt"
                         /\ r.decision.reaction = <<"respond">> \o p.addressed_by

\* an addressed agent with a plan block for the present time
C7_Witness ==
    /\ "should_react" \in pipe["a1"].steps
    /\ pipe["a1"].perception.being_addressed
    /\ get_current_task(agents["a1"].daily_plan, now) # NoBlock
    /\ pipe["a1"].react.decision.reaction = <<"respond", "a2">>
    /\ pipe["a1"].pc = "execute_reaction"

(***************************************************************************)
(* C8 as stated: should_react never raises, whatever non-empty perception  *)
(* and plan argument the pipeline passes.                                  *)
(***************************************************************************)
C8_ShouldReactNeverRaises ==
    \A a \in DOMAIN pipe : ~pipe[a].react.raised

(***************************************************************************)
(* C9: a replan_from_now that fails returns no block, and the              *)
(* execute_reaction of an interrupt that called it leaves broad_strokes,   *)
(* hourly_chunks and current_tasks of the daily plan as they were.         *)
(***************************************************************************)
C9_FailedReplanKeepsPlan ==
    /\ [](\A a \in DOMAIN pipe : pipe[a].replan \notin {"none", "plan"} => pipe[a].blocks = 0)
    /\ [][\A a \in DOMAIN pipe :
             (pipe[a].pc = "execute_reaction" /\ pipe'[a].pc = "done"
                 /\ pipe'[a].replan \notin {"none", "plan"})
                 => agents'[a].daily_plan = agents[a].daily_plan]_vars

\* the replan call of an interrupt failed and the plan of the day is still there
C9_Witness ==
    /\ pipe["a1"].pc = "done" /\ pipe["a1"].replan = "fail"
    /\ "execute_reaction" \in pipe["a1"].steps
    /\ agents["a1"].daily_plan.broad_strokes = <<PlanBlock(Hour(8), Hour(24), "work")>>
    /\ agents["a1"].daily_plan.hourly_chunks = <<PlanBlock(Hour(8), Hour(16), "code")>>

(***************************************************************************)
(* C11: within a tick the eligible agents run in consecutive batches of    *)
(* at most batch_size: at most batch_size pipelines are in flight, the     *)
(* pipelines in flight are those of the current batch, every pipeline of   *)
(* an earlier batch has ended and none of a later batch has started, and   *)
(* a pipeline that has ended starts again only in a new tick.              *)
(***************************************************************************)
C11_ConsecutiveBatches ==
    /\ [](LET inflight == {a \in DOMAIN pipe : pipe[a].pc \notin {"idle", "done"}}
              started == {a \in DOMAIN pipe : pipe[a].pc # "idle"}
              place(a) == CHOOSE i \in DOMAIN sched.eligible : sched.eligible[i] = a
          IN  /\ Cardinality(inflight) <= BatchSize
              /\ started \subseteq Range(sched.eligible)
              /\ \A i, j \in DOMAIN sched.eligible :
                    sched.eligible[i] = sched.eligible[j] => i = j
              /\ \A a \in Range(sched.eligible) :
                    /\ place(a) < sched.pos => pipe[a].pc = "done"
                    /\ place(a) >= sched.pos + BatchSize => pipe[a].pc = "idle"
                    /\ a \in inflight => sched.phase = "batch" /\ place(a) >= sched.pos)
    /\ [][\A a \in DOMAIN pipe :
             (a \in DOMAIN pipe' /\ pipe[a].pc = "done" /\ pipe'[a].pc # "done")
                 => sched'.ticks = sched.ticks + 1]_vars

\* the second batch of a tick is in flight after both pipelines of the first ended
C11_Witness ==
    /\ sched.phase = "batch" /\ sched.eligible = <<"a1", "a2", "a3">>
    /\ sched.pos = BatchSize + 1
    /\ pipe["a1"].pc = "done" /\ pipe["a2"].pc = "done"
    /\ pipe["a3"].pc = "decide"

(***************************************************************************)
(* The loop specification: the scheduler is started and stopped at any     *)
(* moment while the clock runs from the first day into the second, with    *)
(* the daily plan due from the default hour on.                            *)
(***************************************************************************)
LoopInit ==
    /\ now = 0
    /\ memory = [a \in AgentIds |-> MemoryManager(MaxMemories)]
    /\ ret = Ret("init", FALSE, NoResult)
    /\ agents \in {f \in [{"a1", "a2"} -> LoadedAgents] :
                        /\ f["a1"].state = "active"
                        /\ f["a2"].state = "sleeping"}
    /\ pipe = [a \in {"a1", "a2"} |-> IdlePipe]
    /\ sched = NewScheduler(agents)
    /\ EmptyShared

LoopNext ==
    \/ Clock(LoopTime) /\ UNCHANGED world
    \/ Start
    \/ Stop
    \/ Tick
    \/ \E llm \in {ReplanReply("fail", <<>>), ReplanReply("plan", <<PlanBlock(Hour(0), Hour(24), "work")>>)} :
            GenerateDailyPlan(llm)
    \/ BatchEnd
    \/ \E a \in {"a1", "a2"} :
        \/ Perceive(a, Perception(<<>>, <<>>, NoText))
        \/ ShouldReact(a, ReactReply("fail", FALSE, "", NoText))
        \/ Reflect(a, [ok |-> FALSE, lines |-> <<>>], <<"fail", "fail", "fail">>, {"k2"})
        \/ \E response \in {GenerateRaised, Says("REST", NoText, NoText)} :
                RequestDecision(a, Thrice(response))
        \/ ExecuteDecision(a)

SpecLoop == LoopInit /\ [][LoopNext /\ UNCHANGED <<conversations, recent_events>> /\ sched'.ticks <= LoopTicks]_vars

(***************************************************************************)
(* C12: once stop() has been called the scheduler is Stopped and its loop  *)
(* task has left the loop at the await it stood at; until a later start()  *)
(* no tick begins, no daily plan is generated, no pipeline starts or takes *)
(* a step, and start() itself begins none of these.                        *)
(***************************************************************************)
C12_StopEndsTheLoop ==
    /\ [](~sched.is_running => sched.task # "live" /\ sched.phase # "plan")
    /\ [](sched.task = "ended" => \A a \in DOMAIN pipe : pipe[a].pc \in {"idle", "done"})
    /\ [][~sched.is_running
            => /\ sched'.ticks = sched.ticks
               /\ sched'.planned = sched.planned /\ sched'.last_plan_date = sched.last_plan_date
               /\ agents' = agents /\ pipe' = pipe /\ bus' = bus]_vars

\* stop() came while the pipelines of a batch were in flight, after an earlier
\* tick: the pipelines were cancelled and the loop task has ended
C12_Witness ==
    /\ ~sched.is_running /\ sched.task = "ended" /\ sched.phase = "exited"
    /\ sched.ticks > 1
    /\ pipe["a1"].outcome = "cancelled" /\ "perceive" \in pipe["a1"].steps

C14_PublishedEventsAccepted ==
    [][LET added == SubSeq(bus'.history, Len(bus.history) + 1, Len(bus'.history))
           handed == SubSeq(bus'.dispatched, Len(bus.dispatched) + 1, Len(bus'.dispatched))
           published(a, step) ==
               /\ a \in DOMAIN pipe' /\ pipe[a].pc = step
               /\ "publish" \in pipe'[a].steps \ pipe[a].steps
       IN  /\ sched'.last_plan_date # sched.last_plan_date
                => "daily_plan.generated" \in Range(added)
           /\ \A a \in DOMAIN pipe :
                /\ published(a, "execute_reaction") => "agent.reacted" \in Range(added)
                /\ published(a, "execute") => "agent.decided" \in Range(added)
                /\ published(a, "execute") /\ agents'[a].current_action.type = "chat"
                                           /\ agents'[a].current_action.started_at = now
                     => "chat.requested" \in Range(added) /\ "chat.requested" \in Range(handed)]_vars

(***************************************************************************)
(* The move specification: two agents of one batch decide to move while a  *)
(* third sleeps at home.  The cafe has room for one and is empty, the home *)
(* has room for one and holds the sleeper.                                 *)
(***************************************************************************)
MoveDecisions ==
    { Says("MOVE", <<"cafe">>, <<"go">>), Says("MOVE", <<"old", "cafe">>, <<"go">>),
      Says("MOVE", <<"home">>, <<"go">>), Says("MOVE", <<"nowhere">>, <<"go">>) }

MoveInit ==
    /\ now = 0
    /\ memory = [a \in AgentIds |-> MemoryManager(MaxMemories)]
    /\ ret = Ret("init", FALSE, NoResult)
    /\ agents = [a \in AgentIds |->
                    IF a = "a3"
                    THEN At(Agent("sleeping", CurrentAction("sleep", 480, 0), NoPlan), "home")
                    ELSE Agent("active", CurrentAction("idle", 0, 0), NoPlan)]
    /\ pipe = [a \in AgentIds |-> IdlePipe]
    /\ sched = Configured(NewScheduler(agents), LatestPlanStartHour)
    /\ bus = Subscribing(EventBus)
    /\ locations = [l \in {"cafe", "home"} |->
                       IF l = "cafe" THEN Location(<<"cafe">>, 1, {})
                       ELSE Location(<<"home">>, 1, {"a3"})]
    /\ by_location = [l \in {"cafe", "home"} |-> IF l = "home" THEN {"a3"} ELSE {}]
    /\ last_event_check = 0
    /\ conversations = ConversationManager
    /\ recent_events = <<>>

MoveNext ==
    \/ AdvanceClock /\ UNCHANGED world
    \/ Start
    \/ Tick
    \/ BatchEnd
    \/ \E a \in {"a1", "a2"} :
        \/ Perceive(a, Perception(<<>>, <<>>, NoText))
        \/ ShouldReact(a, ReactReply("fail", FALSE, "", NoText))
        \/ Reflect(a, [ok |-> FALSE, lines |-> <<>>], <<"fail", "fail", "fail">>, {"k2"})
        \/ \E response \in MoveDecisions : RequestDecision(a, Thrice(response))
        \/ ExecuteDecision(a)

SpecMove == MoveInit /\ [][MoveNext /\ UNCHANGED <<conversations, recent_events>> /\ sched'.ticks <= MoveTicks]_vars

(***************************************************************************)
(* C15 as stated: when the target of a Move is not found by name or is at  *)
(* capacity, execute_decision does nothing: the agent with its position,   *)
(* its current action and the thinking text of that action and its state,  *)
(* the agent's memories and the occupancy of the directory stay as they    *)
(* were.                                                                   *)
(***************************************************************************)
C15_FailedMoveChangesNothing ==
    [][\A a \in DOMAIN pipe :
          LET d == pipe[a].pending
              location == IF Truthy(d.target) THEN get_by_name(locations, d.target)
                          ELSE NoLocation
          IN  (/\ pipe[a].pc = "execute" /\ pipe'[a].pc = "done" /\ d.action = "move"
               /\ (location = NoLocation \/ is_full(locations[location])))
              => /\ agents'[a] = agents[a]
                 /\ memory'[a] = memory[a]
                 /\ locations' = locations /\ by_location' = by_location]_vars

(***************************************************************************)
(* C16 as stated: after any sequence of Moves, also of pipelines of one    *)
(* batch, no location holds more agents than its capacity: not by the      *)
(* positions of the agents, not in the location index of the directory,    *)
(* not in the location's own set of occupants.                             *)
(***************************************************************************)
C16_OccupancyWithinCapacity ==
    \A l \in DOMAIN locations :
        /\ Cardinality({a \in DOMAIN agents : agents[a].position = l}) <= locations[l].capacity
        /\ Cardinality(by_location[l]) <= locations[l].capacity
        /\ Cardinality(locations[l].current_agents) <= locations[l].capacity


(***************************************************************************)
(* The decision specification: two agents of one batch ask for a decision  *)
(* and the inference service answers each of the three calls in its own    *)
(* way.                                                                    *)
(***************************************************************************)
WorkReply == Fields(<<"Work">>, NoText, NoText)

DecideReplies ==
    { Thrice(GenerateRaised),
      Thrice(LLMResponse(<<Open, Close>>)),
      Thrice(LLMResponse(<<Fence, Open, WorkReply, Close, Fence>>)),
      <<LLMResponse(<<Prose>>), GenerateRaised, Says("WORK", NoText, <<"go">>)>>,
      <<LLMResponse(<<Open, Close>>), Says("REST", NoText, NoText), GenerateRaised>>,
      <<LLMResponse(<<Open, Fields(NoText, NoText, NoText), Close>>), LLMResponse(<<Number>>),
        LLMResponse(<<Prose, Open, WorkReply, Close>>)>>,
      <<LLMResponse(<<Open, Open, Close, Close>>), GenerateRaised, GenerateRaised>> }

DecideInit ==
    /\ now = 0
    /\ memory = [a \in AgentIds |-> MemoryManager(MaxMemories)]
    /\ ret = Ret("init", FALSE, NoResult)
    /\ agents = [a \in AgentIds |->
                    IF a = "a3" THEN Agent("sleeping", CurrentAction("sleep", 480, 0), NoPlan)
                    ELSE Agent("active", CurrentAction("idle", 0, 0), NoPlan)]
    /\ pipe = [a \in AgentIds |-> IdlePipe]
    /\ sched = Configured(NewScheduler(agents), LatestPlanStartHour)
    /\ EmptyShared

DecideNext ==
    \/ AdvanceClock /\ UNCHANGED world
    \/ Start
    \/ Tick
    \/ BatchEnd
    \/ \E a \in {"a1", "a2"} :
        \/ Perceive(a, Perception(<<>>, <<>>, NoText))
        \/ ShouldReact(a, ReactReply("fail", FALSE, "", NoText))
        \/ Reflect(a, [ok |-> FALSE, lines |-> <<>>], <<"fail", "fail", "fail">>, {"k2"})
        \/ \E responses \in DecideReplies : RequestDecision(a, responses)
        \/ ExecuteDecision(a)

SpecDecide == DecideInit /\ [][DecideNext /\ UNCHANGED <<conversations, recent_events>> /\ sched'.ticks <= DecideTicks]_vars

\* C17: make_decision makes at most three calls of the inference service for an
\* agent in a tick; it returns the Decision built from the first response from
\* which a JSON object is extracted, after that many calls; and when no response
\* gives a JSON object it returns none, the pipeline ends without executing
\* anything and the bus gets no event.
C17_FirstJsonObjectDecides ==
    /\ [](\A a \in DOMAIN pipe : Len(pipe[a].responses) <= retry_count + 1)
    /\ [][\A a \in DOMAIN pipe :
             (a \in DOMAIN pipe' /\ pipe[a].pc = "decide" /\ pipe'[a].pc # "decide")
                 => LET taken == pipe'[a].responses
                        objects == {i \in DOMAIN taken :
                                       /\ taken[i].kind = "content"
                                       /\ extract_json_from_response(taken[i].content).kind
                                              = "object"}
                        first == CHOOSE i \in objects : \A j \in objects : i <= j
                    IN  IF objects # {}
                        THEN /\ Len(taken) = first
                             /\ pipe'[a].pc = "execute"
                             /\ pipe'[a].pending =
                                   from_json(extract_json_from_response(taken[first].content)).decision
                        ELSE /\ pipe'[a].pc = "done"
                             /\ pipe'[a].pending = NoAction
                             /\ "execute" \notin pipe'[a].steps
                             /\ bus' = bus]_vars

(***************************************************************************)
(* The extraction specification: every reply of at most MaxReply tokens    *)
(* goes through extract_json_from_response, and the value extracted, when  *)
(* make_decision takes it for true, through Decision.from_json.            *)
(***************************************************************************)
ReplyTokens == {Open, Close, Fence, Prose, Number, WorkReply}

Replies == UNION {[1..n -> ReplyTokens] : n \in 0..MaxReply}

Extracted(op, response, json_data, raised, decision) ==
    [op |-> op, response |-> response, json_data |-> json_data, raised |-> raised,
     decision |-> decision]

JsonInit ==
    /\ now = 0
    /\ memory = [a \in AgentIds |-> MemoryManager(MaxMemories)]
    /\ ret \in {Extracted("reply", response, JsonNone, FALSE, NoAction) : response \in Replies}
    /\ IdleWorld

ExtractJson ==
    /\ ret.op = "reply"
    /\ ret' = [ret EXCEPT !.op = "extract_json_from_response",
                          !.json_data = extract_json_from_response(ret.response)]
    /\ UNCHANGED <<now, memory, world>>

FromJson ==
    /\ ret.op = "extract_json_from_response" /\ JsonTruthy(ret.json_data)
    /\ ret' = [ret EXCEPT !.op = "from_json",
                          !.raised = from_json(ret.json_data).raised,
                          !.decision = from_json(ret.json_data).decision]
    /\ UNCHANGED <<now, memory, world>>

JsonNext == ExtractJson \/ FromJson

SpecJson == JsonInit /\ [][JsonNext /\ UNCHANGED <<conversations, recent_events>>]_vars

\* C20: extract_json_from_response returns the parse of the whole text when
\* that parses; otherwise the parse of the first fenced block that parses, the
\* blocks being the texts between the 1st and 2nd fence, the 3rd and 4th, ...;
\* otherwise the parse of the first "{" ... "}" span that parses, a span
\* running from a "{" that no earlier span holds to the next "}"; otherwise
\* none.  A reply whose first fenced block is {"action": "Work"} gives a
\* Decision with action work.
C20_ExtractionOrder ==
    ret.op \in {"extract_json_from_response", "from_json"} =>
        LET r == ret.response
            Parses(i, j) == loads(SubSeq(r, i, j)) # DecodeError
            blocks == {b \in (1..Len(r)) \X (1..Len(r)) :
                         /\ b[1] < b[2] /\ r[b[1]] = Fence /\ r[b[2]] = Fence
                         /\ \A k \in (b[1] + 1)..(b[2] - 1) : r[k] # Fence
                         /\ Cardinality({k \in 1..(b[1] - 1) : r[k] = Fence}) % 2 = 0
                         /\ Parses(b[1] + 1, b[2] - 1)}
            spans == {b \in (1..Len(r)) \X (1..Len(r)) :
                         /\ b[1] < b[2] /\ r[b[1]] = Open /\ r[b[2]] = Close
                         /\ \A k \in (b[1] + 1)..(b[2] - 1) : r[k] # Close
                         /\ \A k \in 1..(b[1] - 1) :
                               r[k] = Open => \E m \in (k + 1)..(b[1] - 1) : r[m] = Close
                         /\ Parses(b[1], b[2])}
            firstBlock == CHOOSE b \in blocks : \A c \in blocks : b[1] <= c[1]
            firstSpan == CHOOSE b \in spans : \A c \in spans : b[1] <= c[1]
        IN  /\ ret.json_data =
                  IF Parses(1, Len(r)) THEN loads(r)
                  ELSE IF blocks # {}
                  THEN loads(SubSeq(r, firstBlock[1] + 1, firstBlock[2] - 1))
                  ELSE IF spans # {} THEN loads(SubSeq(r, firstSpan[1], firstSpan[2]))
                  ELSE JsonNone
            /\ \A i \in 1..Len(r) :
                  (/\ i + 4 <= Len(r)
                   /\ SubSeq(r, i, i + 4) = <<Fence, Open, WorkReply, Close, Fence>>
                   /\ \A k \in 1..(i - 1) : r[k] # Fence)
                      => /\ ret.json_data = JsonValue("object", 1, WorkReply)
                         /\ ret.op = "from_json" => ~ret.raised /\ ret.decision.action = "work"

\* the fenced reply has been turned into the decision to work
C20_Witness ==
    /\ ret.op = "from_json"
    /\ ret.response = <<Fence, Open, WorkReply, Close, Fence>>
    /\ ret.decision = [action |-> "work", target |-> NoText, thinking |-> NoText]

(***************************************************************************)
(* The waiting specification: three active agents, two batches to a tick,  *)
(* and an inference service that may leave a call of make_decision without *)
(* an answer.  The event loop runs every coroutine that can run, so a step *)
(* that stays possible is taken.                                           *)
(***************************************************************************)
HangInit ==
    /\ now = 0
    /\ memory = [a \in AgentIds |-> MemoryManager(MaxMemories)]
    /\ ret = Ret("init", FALSE, NoResult)
    /\ agents = [a \in AgentIds |-> Agent("active", CurrentAction("idle", 0, 0), NoPlan)]
    /\ pipe = [a \in AgentIds |-> IdlePipe]
    /\ sched = Configured(NewScheduler(agents), LatestPlanStartHour)
    /\ EmptyShared

HangNext ==
    \/ AdvanceClock /\ UNCHANGED world
    \/ Start
    \/ Tick
    \/ BatchEnd
    \/ \E a \in AgentIds :
        \/ Perceive(a, Perception(<<>>, <<>>, NoText))
        \/ ShouldReact(a, ReactReply("fail", FALSE, "", NoText))
        \/ Reflect(a, [ok |-> FALSE, lines |-> <<>>], <<"fail", "fail", "fail">>, {"k2"})
        \/ \E response \in {GenerateRaised, Says("WORK", NoText, NoText)} :
                RequestDecision(a, Thrice(response))
        \/ InferenceHangs(a)
        \/ ExecuteDecision(a)

HangStep == HangNext /\ UNCHANGED <<conversations, recent_events>> /\ sched'.ticks <= HangTicks

SpecHang == HangInit /\ [][HangStep]_vars /\ WF_vars(HangStep)

\* C18: every tick ends: once the batches of a tick have started, the loop
\* reaches the sleep between ticks, whatever the inference service does.
C18_EveryTickEnds == [](sched.phase = "batch" => <>(sched.phase = "wait"))

\* C19: a step of the pipeline of an agent leaves the record, the store and the
\* pipeline of every other agent as they are, and it does not write the
\* bookkeeping of the perception system while the pipeline of another agent,
\* still running, has written it too: only the directory and the bus are
\* written by more than one running pipeline.
C19_PipelinesShareOnlyDirectoryAndBus ==
    [][\A a \in DOMAIN pipe :
          (a \in DOMAIN pipe' /\ sched' = sched /\ pipe'[a] # pipe[a])
              => /\ \A b \in DOMAIN pipe \ {a} :
                       agents'[b] = agents[b] /\ memory'[b] = memory[b] /\ pipe'[b] = pipe[b]
                 /\ last_event_check' # last_event_check
                       => \A b \in DOMAIN pipe \ {a} :
                             ~("perceive" \in pipe[b].steps /\ pipe[b].pc \notin {"idle", "done"})]_vars

(***************************************************************************)
(* The retrieval specification: the retrieval methods of one store called  *)
(* with their limit and their threshold, ret keeping the ids of the        *)
(* memories returned, in the order of the list.                            *)
(***************************************************************************)
Ids(mems) == [i \in DOMAIN mems |-> mems[i].id]

\* [self._memories[mid] for mid in memory_ids if mid in self._memories]
Held(store, memory_ids) ==
    LET kept == SelectSeq(memory_ids, LAMBDA mid : mid \in MemoryIds(store))
    IN  [i \in DOMAIN kept |-> Lookup(store, kept[i])]

\* MemoryManager.retrieve_by_type: by importance, the highest first
retrieve_by_type(store, memory_type, limit) ==
    LET memories == Held(store, store.by_type[memory_type])
    IN  Take(SortedDesc(memories, [i \in DOMAIN memories |-> memories[i].importance]), limit)

\* MemoryManager.retrieve_by_agent: by creation time, the latest first
retrieve_by_agent(store, agent_id, limit) ==
    LET memories == Held(store, IF agent_id \in DOMAIN store.by_agent
                                THEN store.by_agent[agent_id] ELSE <<>>)
    IN  Take(SortedDesc(memories, [i \in DOMAIN memories |-> memories[i].created_at]), limit)

\* the call, its limit, and the ids it returned
Returned(op, limit, ids) == [op |-> op, limit |-> limit, ids |-> ids]

RetrieveInit ==
    /\ now = 0
    /\ memory = [a \in AgentIds |-> MemoryManager(RetrieveCapacity)]
    /\ ret = Returned("init", 0, <<>>)
    /\ IdleWorld

Remember(a, type, importance, related_agents) ==
    /\ memory' = [memory EXCEPT ![a] =
                     create_and_add(@, type, importance, related_agents, {"k1"}, now)]
    /\ ret' = Returned("create_and_add", 0, <<>>)
    /\ UNCHANGED now

RetrieveRelevantTop(a, query_keywords, limit, min_score) ==
    LET r == retrieve_relevant(memory[a], query_keywords, limit, min_score, now)
    IN  /\ memory' = [memory EXCEPT ![a] = r.store]
        /\ ret' = Returned("retrieve_relevant", limit, Ids(r.results))
        /\ UNCHANGED now

RetrieveRecentTop(a, limit) ==
    /\ ret' = Returned("retrieve_recent", limit, Ids(retrieve_recent(memory[a], limit)))
    /\ UNCHANGED <<now, memory>>

RetrieveByType(a, memory_type, limit) ==
    /\ ret' = Returned("retrieve_by_type", limit,
                       Ids(retrieve_by_type(memory[a], memory_type, limit)))
    /\ UNCHANGED <<now, memory>>

RetrieveByAgent(a, agent_id, limit) ==
    /\ ret' = Returned("retrieve_by_agent", limit,
                       Ids(retrieve_by_agent(memory[a], agent_id, limit)))
    /\ UNCHANGED <<now, memory>>

GetById(a, memory_id) ==
    /\ memory' = [memory EXCEPT ![a] = get(@, memory_id, now)]
    /\ ret' = Returned("get", 1, IF memory_id \in MemoryIds(memory[a]) THEN <<memory_id>>
                                 ELSE <<>>)
    /\ UNCHANGED now

\* the stores stay within the bounds of the retrieval specification
RetrieveBounds ==
    \A a \in AgentIds :
        /\ memory[a].accumulated_importance <= MaxMemAccumulated
        /\ MaxAccessCount(memory[a]) <= MaxRetrieveAccess

RetrieveNext ==
    \/ Clock(MaxTime)
    \/ \E in \in {<<"event", 9, <<>>>>, <<"event", 10, <<"a2">>>>, <<"social", 10, <<"a2">>>>} :
            Remember("a1", in[1], in[2], in[3])
    \/ \E limit \in {1, 2} : \E min_score \in {MinScore, 8300} :
            RetrieveRelevantTop("a1", {}, limit, min_score)
    \/ \E limit \in {1, 2} : RetrieveRecentTop("a1", limit)
    \/ \E limit \in {1, 2} : RetrieveByType("a1", "event", limit)
    \/ \E limit \in {1, 2} : RetrieveByAgent("a1", "a2", limit)
    \/ \E id \in 1..(RetrieveCapacity + 1) : GetById("a1", id)

SpecRetrieve == RetrieveInit /\ [][RetrieveNext /\ UNCHANGED world /\ RetrieveBounds']_vars

\* C21: a call of retrieve_relevant raises access_count by one on every memory
\* it returns and leaves the access_count of every other memory as it was.
C21_OnlyReturnedAccessed ==
    [][(now' = now /\ ret'.op = "retrieve_relevant") =>
          \A a \in AgentIds :
              /\ Ids(memory'[a].memories) = Ids(memory[a].memories)
              /\ \A i \in DOMAIN memory[a].memories :
                    memory'[a].memories[i].access_count =
                        memory[a].memories[i].access_count
                          + (IF a = "a1" /\ memory[a].memories[i].id \in Range(ret'.ids)
                             THEN 1 ELSE 0)]_vars

\* C22 as stated: retrieve_recent, retrieve_by_type, retrieve_by_agent and get
\* leave every store as it was, and a retrieve_recent that follows a
\* retrieve_recent with the same limit returns the same list.
C22_RetrievalsChangeNothing ==
    [][now' = now =>
       /\ ret'.op \in {"retrieve_recent", "retrieve_by_type", "retrieve_by_agent", "get"}
             => memory' = memory
       /\ (ret.op = "retrieve_recent" /\ ret'.op = "retrieve_recent" /\ ret'.limit = ret.limit)
             => ret'.ids = ret.ids]_vars

\* C22: retrieve_recent, retrieve_by_type and retrieve_by_agent leave every
\* store as it was, and a retrieve_recent that follows a retrieve_recent with
\* the same limit returns the same list; get raises the access_count of the
\* memory it finds by one and changes nothing else.
C22_ListingsChangeNothingGetCounts ==
    [][now' = now =>
       /\ ret'.op \in {"retrieve_recent", "retrieve_by_type", "retrieve_by_agent"}
             => memory' = memory
       /\ (ret.op = "retrieve_recent" /\ ret'.op = "retrieve_recent" /\ ret'.limit = ret.limit)
             => ret'.ids = ret.ids
       /\ ret'.op = "get"
             => \A a \in AgentIds :
                   memory'[a] = [memory[a] EXCEPT !.memories =
                                   [i \in DOMAIN @ |->
                                       IF a = "a1" /\ @[i].id \in Range(ret'.ids)
                                       THEN [@[i] EXCEPT !.access_count = @ + 1]
                                       ELSE @[i]]]]_vars

\* the two memories of the store have been listed after one of them was looked up
C22_Witness ==
    /\ ret.op = "retrieve_recent"
    /\ Len(ret.ids) = 2
    /\ \E i \in DOMAIN memory["a1"].memories :
          memory["a1"].memories[i].access_count > 0 /\ memory["a1"].memories[i].importance = 10

(***************************************************************************)
(* The plan specification: a daily plan whose blocks carry the clock       *)
(* strings an inference reply gave, "8:00" for eight o'clock among them    *)
(* (PlanBlock logs a warning for such a string and keeps it), is asked for *)
(* its current block at every time of the day.                             *)
(***************************************************************************)
\* the minutes after midnight a clock string stands for: int() of the parts
\* before and after the colon
Minutes(s) ==
    LET c == CHOOSE i \in DOMAIN s : s[i] = Colon
        hour == IF c = 2 THEN s[1] ELSE s[1] * 10 + s[2]
    IN  hour * 60 + s[c + 1] * 10 + s[c + 2]

ClockStrings == {Hour(8), <<8, Colon, 0, 0>>, Hour(16), Hour(24)}

BlocksOf(activity) ==
    {PlanBlock(s, e, activity) : s \in ClockStrings, e \in {x \in ClockStrings : Minutes(x) > 480}}

SeqsUpTo(S, n) == UNION {[1..k -> S] : k \in 0..n}

PlanInputs ==
    {DailyPlan(0, b, h, c) :
        b \in SeqsUpTo({x \in BlocksOf("stroke") : Minutes(x.start_time) < Minutes(x.end_time)},
                       MaxBlocks),
        h \in SeqsUpTo({x \in BlocksOf("chunk") : Minutes(x.start_time) < Minutes(x.end_time)}, 1),
        c \in SeqsUpTo({x \in BlocksOf("task") : Minutes(x.start_time) < Minutes(x.end_time)}, 1)}

Asked(op, plan, t, block) == [op |-> op, plan |-> plan, t |-> t, block |-> block]

PlanInit ==
    /\ now = 0
    /\ memory = [a \in AgentIds |-> MemoryManager(MaxMemories)]
    /\ ret \in {Asked("plan", plan, 0, NoBlock) : plan \in PlanInputs}
    /\ IdleWorld

GetCurrentBlock ==
    /\ ret' = Asked("get_current_block", ret.plan, now, get_current_block(ret.plan, now))
    /\ UNCHANGED <<now, memory>>

PlanNext == Clock(SlotsPerDay - 1) \/ GetCurrentBlock

SpecPlan == PlanInit /\ [][PlanNext /\ UNCHANGED world]_vars

\* C23: get_current_block returns the first block, going through current_tasks,
\* then hourly_chunks, then broad_strokes, whose interval from start (included)
\* to end (excluded) holds the time, and none when no block of any tier does.
C23_FirstBlockHoldingTheTime ==
    ret.op = "get_current_block" =>
        LET time == Minutes(TimeStr(ret.t))
            tiers == ret.plan.current_tasks \o ret.plan.hourly_chunks \o ret.plan.broad_strokes
            holds == {i \in DOMAIN tiers :
                         Minutes(tiers[i].start_time) <= time /\ time < Minutes(tiers[i].end_time)}
        IN  ret.block = IF holds = {} THEN NoBlock
                        ELSE tiers[CHOOSE i \in holds : \A j \in holds : i <= j]

(***************************************************************************)
(* The importance specification: memories are written through              *)
(* Agent.add_memory with the importance the caller supplies, and through   *)
(* Agent.add_memory_async with the importance the rating reply gives.      *)
(***************************************************************************)
\* the words of a rating reply that the pattern of rate_importance matches: a
\* number from 1 to 10 standing alone, the k-th entry being the text of k
Ratings == <<"1", "2", "3", "4", "5", "6", "7", "8", "9", "10">>

\* rate_importance: the first word of the reply that is a number from 1 to 10,
\* and 5 when there is none or the call raised
rate_importance(response) ==
    IF response.kind = "raised" THEN 5
    ELSE LET hits == {i \in DOMAIN response.content : response.content[i] \in Range(Ratings)}
         IN  IF hits = {} THEN 5
             ELSE LET first == CHOOSE i \in hits : \A j \in hits : i <= j
                  IN  CHOOSE k \in DOMAIN Ratings : Ratings[k] = response.content[first]

RatingReplies ==
    {GenerateRaised, LLMResponse(<<"0">>), LLMResponse(<<"11">>), LLMResponse(<<"x", "10", "1">>)}

\* Agent.add_memory
AddMemory(a, importance) ==
    /\ memory' = [memory EXCEPT ![a] = create_and_add(@, "event", importance, <<>>, {"k1"}, now)]
    /\ ret' = Returned("add_memory", importance, <<>>)
    /\ UNCHANGED now

\* Agent.add_memory_async without an importance
AddMemoryAsync(a, response) ==
    /\ memory' = [memory EXCEPT ![a] =
                     create_and_add(@, "event", rate_importance(response), <<>>, {"k1"}, now)]
    /\ ret' = Returned("add_memory_async", rate_importance(response), <<>>)
    /\ UNCHANGED now

ImportanceNext ==
    \/ Clock(MaxTime)
    \/ \E importance \in {0, 11} : AddMemory("a1", importance)
    \/ \E response \in RatingReplies : AddMemoryAsync("a1", response)

SpecImportance == RetrieveInit /\ [][ImportanceNext /\ UNCHANGED world /\ RetrieveBounds']_vars

\* C24: every memory held in a store has an importance from 0 to 10, whatever
\* importance was supplied to add_memory or given by the rating.
C24_ImportanceWithinRange ==
    \A a \in AgentIds : \A i \in DOMAIN memory[a].memories :
        /\ 0 <= memory[a].memories[i].importance
        /\ memory[a].memories[i].importance <= 10

(***************************************************************************)
(* The money specification: one agent with some balance eats, shops and    *)
(* works as its decisions say, has its finished actions completed, and is  *)
(* asked to spend given amounts.                                           *)
(***************************************************************************)
Funded(agent, balance) == [agent EXCEPT !.balance = balance]

Spent(op, amount, ok) == [op |-> op, amount |-> amount, ok |-> ok]

MoneyInit ==
    /\ now = 0
    /\ memory = [a \in AgentIds |-> MemoryManager(MaxMemories)]
    /\ ret = Spent("init", 0, FALSE)
    /\ agents \in {[a \in {"a1"} |->
                       Funded(Agent("active", CurrentAction("idle", 0, 0), NoPlan), Money(yuan))] :
                   yuan \in {37, 62, 100}}
    /\ pipe = <<>>
    /\ sched = NewScheduler(<<>>)
    /\ EmptyShared

\* agent.spend_money(amount, reason)
SpendMoney(a, amount, reason) ==
    LET s == spend_money(agents[a], memory[a], amount, reason, now)
    IN  /\ agents' = [agents EXCEPT ![a] = s.agent]
        /\ memory' = [memory EXCEPT ![a] = s.store]
        /\ ret' = Spent("spend_money", amount, s.ok)
        /\ UNCHANGED now

\* the completion of a finished action in _process_agent
CompleteFinished(a) ==
    /\ agents[a].current_action.duration_minutes > 0
    /\ is_complete(agents[a].current_action, now)
    /\ agents' = [agents EXCEPT ![a] = complete_action(@, now)]
    /\ ret' = Spent("complete_action", 0, TRUE)
    /\ UNCHANGED <<now, memory>>

\* execute_decision for an agent the scheduler found in need of a decision
ExecuteAction(a, action) ==
    /\ NeedsDecision(agents[a], now)
    /\ LET r == execute_decision(a, agents, memory[a],
                                 [action |-> action, target |-> NoText, thinking |-> NoText],
                                 now, locations, by_location, bus)
       IN  /\ agents' = r.agents
           /\ memory' = [memory EXCEPT ![a] = r.store]
           /\ ret' = Spent("execute_decision", 0, r.success)
    /\ UNCHANGED now

MoneyBounds ==
    /\ RetrieveBounds
    /\ \A a \in DOMAIN agents : agents[a].balance <= Money(MaxBalance)

MoneyNext ==
    \/ Clock(MaxTime) /\ UNCHANGED agents
    \/ \E amount \in {Money(100)} : \E reason \in {<<>>, <<"rent">>} :
            SpendMoney("a1", amount, reason)
    \/ CompleteFinished("a1")
    \/ \E action \in {"eat", "shop", "work"} : ExecuteAction("a1", action)

SpecMoney == MoneyInit /\ [][MoneyNext /\ UNCHANGED <<pipe, sched, shared>> /\ MoneyBounds']_vars

\* C25: spend_money with an amount above the balance returns False and leaves
\* the balance, daily_expense and the memory store as they were; so the balance
\* is never negative, whatever is eaten, bought, worked and completed.
C25_NoSpendingBeyondBalance ==
    /\ [](\A a \in DOMAIN agents : agents[a].balance >= 0)
    /\ [][(now' = now /\ ret'.op = "spend_money" /\ ret'.amount > agents["a1"].balance)
            => /\ ~ret'.ok
               /\ agents'["a1"].balance = agents["a1"].balance
               /\ agents'["a1"].daily_expense = agents["a1"].daily_expense
               /\ memory' = memory]_vars

\* something was bought, and then an amount above what was left was refused
C25_Witness ==
    /\ ret.op = "spend_money" /\ ~ret.ok
    /\ agents["a1"].daily_expense > 0
    /\ agents["a1"].balance < ret.amount
    /\ agents["a1"].balance > 0

(***************************************************************************)
(* The conversation specification: conversations between the agents are    *)
(* created and ended in any order.                                         *)
(***************************************************************************)
Talked(op, a, b, id, raised, found) ==
    [op |-> op, a |-> a, b |-> b, id |-> id, raised |-> raised, found |-> found]

TalkInit ==
    /\ now = 0
    /\ memory = [a \in AgentIds |-> MemoryManager(MaxMemories)]
    /\ ret = Talked("init", "", "", 0, FALSE, FALSE)
    /\ IdleWorld

CreateConversation(agent_a_id, agent_b_id) ==
    LET r == create_conversation(conversations, agent_a_id, agent_b_id)
    IN  /\ conversations' = r.manager
        /\ ret' = Talked("create_conversation", agent_a_id, agent_b_id, r.conversation.id,
                         r.raised, FALSE)

EndConversation(conversation_id, reason) ==
    LET r == end_conversation(conversations, conversation_id, reason)
    IN  /\ conversations' = r.manager
        /\ ret' = Talked("end_conversation", r.conversation.participant_a,
                         r.conversation.participant_b, conversation_id, FALSE, r.found)

\* ConversationManager.clear
ClearConversations ==
    /\ conversations' = ConversationManager
    /\ ret' = Talked("clear", "", "", 0, FALSE, FALSE)

TalkNext ==
    \/ \E pair \in {<<"a1", "a2">>, <<"a1", "a3">>, <<"a2", "a3">>, <<"a3", "a3">>} :
            CreateConversation(pair[1], pair[2])
    \/ \E id \in 1..(MaxEnded + 2) : \E reason \in {"normal", "interrupted"} :
            EndConversation(id, reason)
    \/ ClearConversations

SpecTalk ==
    TalkInit /\ [][/\ TalkNext
                   /\ UNCHANGED <<now, memory, agents, pipe, sched, bus, locations,
                                  by_location, last_event_check, recent_events>>
                   /\ Len(conversations'.history) <= MaxEnded]_vars

\* the active conversations an agent takes part in
ActiveOf(agent_id) ==
    {i \in DOMAIN conversations.active :
        agent_id \in {conversations.active[i].participant_a,
                      conversations.active[i].participant_b}}

\* C26: an agent takes part in at most one active conversation; a
\* create_conversation with an agent that is in a conversation raises and
\* changes nothing; an end_conversation releases both participants, each of
\* which can then be put into a new conversation.
C26_OneConversationPerAgent ==
    /\ [](\A a \in AgentIds : Cardinality(ActiveOf(a)) <= 1)
    /\ [][/\ (ret'.op = "create_conversation"
                /\ (ActiveOf(ret'.a) # {} \/ ActiveOf(ret'.b) # {}))
             => (ret'.raised /\ conversations' = conversations)
          /\ (ret'.op = "end_conversation" /\ ret'.found)
             => \A p \in {ret'.a, ret'.b} :
                    /\ p \notin DOMAIN conversations'.agents_in_conversation
                    /\ \A q \in AgentIds \ DOMAIN conversations'.agents_in_conversation :
                           ~create_conversation(conversations', p, q).raised]_vars

\* an agent whose conversation was ended is in a new one, while another
\* create_conversation was refused in between
C26_Witness ==
    /\ ret.op = "create_conversation" /\ ~ret.raised
    /\ \E i \in DOMAIN conversations.history :
           ret.a \in {conversations.history[i].participant_a,
                      conversations.history[i].participant_b}
    /\ Len(conversations.active) = 1
    /\ ret.a # ret.b

(***************************************************************************)
(* The bus specification: handlers, some of which raise, are subscribed to *)
(* and removed from a new EventBus, and events are published.              *)
(***************************************************************************)
Handlers == {Handler("bad_handler", TRUE), Handler("good_handler", FALSE),
             Handler("late_handler", TRUE)}

Told(op, event_type, raised) == [op |-> op, event_type |-> event_type, raised |-> raised]

BusInit ==
    /\ now = 0
    /\ memory = [a \in AgentIds |-> MemoryManager(MaxMemories)]
    /\ ret = Told("init", "", FALSE)
    /\ agents = <<>>
    /\ pipe = <<>>
    /\ sched = NewScheduler(<<>>)
    /\ bus = EventBus
    /\ locations = <<>>
    /\ by_location = <<>>
    /\ last_event_check = 0
    /\ conversations = ConversationManager
    /\ recent_events = <<>>

AddHandler(event_type, handler) ==
    /\ bus' = add_handler(bus, event_type, handler)
    /\ ret' = Told("add_handler", event_type, FALSE)

\* EventBus.remove_handler
RemoveHandler(event_type, handler) ==
    /\ bus' = IF event_type \in DOMAIN bus.handlers
              THEN [bus EXCEPT !.handlers[event_type] = SelectSeq(@, LAMBDA h : h # handler)]
              ELSE bus
    /\ ret' = Told("remove_handler", event_type, FALSE)

PublishEvent(event_type) ==
    LET r == Published(bus, event_type)
    IN  /\ bus' = r.bus
        /\ ret' = Told("publish", event_type, r.raised)

BusNext ==
    \/ \E handler \in Handlers : AddHandler("world.tick", handler)
    \/ \E handler \in Handlers : RemoveHandler("world.tick", handler)
    \/ \E event_type \in {"world.tick", "agent.moved"} : PublishEvent(event_type)

SpecBus ==
    BusInit /\ [][/\ BusNext
                  /\ UNCHANGED <<now, memory, agents, pipe, sched, locations, by_location,
                                 last_event_check, conversations, recent_events>>
                  /\ Len(bus'.history) <= MaxPublished]_vars

\* the handlers subscribed to an event type, in the order of their subscription
HandlersOf(event_type) ==
    IF event_type \in DOMAIN bus.handlers THEN bus.handlers[event_type] ELSE <<>>

\* C27: publish runs every handler subscribed to the type of the event, also
\* when some of them raise, and what a handler raises does not reach the
\* publisher.
C27_EveryHandlerRunNothingRaised ==
    [][ret'.op = "publish"
        => /\ ~ret'.raised
           /\ bus'.called = bus.called \o [i \in DOMAIN HandlersOf(ret'.event_type) |->
                                              HandlersOf(ret'.event_type)[i].name]]_vars

\* a publish to a handler that raises followed by one that does not
C27_Witness ==
    /\ ret.op = "publish"
    /\ Len(HandlersOf(ret.event_type)) >= 2
    /\ HandlersOf(ret.event_type)[1].raises
    /\ ~HandlersOf(ret.event_type)[2].raises
    /\ Len(bus.called) >= 2
    /\ bus.called[Len(bus.called)] = HandlersOf(ret.event_type)[Len(HandlersOf(ret.event_type))].name

C29_NoteWritesObservation ==
    [][(/\ pipe["a1"].pc = "should_react"
        /\ pipe'["a1"].pc # "should_react"
        /\ ~pipe'["a1"].react.raised
        /\ pipe'["a1"].react.decision.should_react
        /\ pipe'["a1"].react.decision.reaction_type = "note")
        => /\ \E i \in DOMAIN memory'["a1"].memories :
                  /\ memory'["a1"].memories[i].id \notin MemoryIds(memory["a1"])
                  /\ memory'["a1"].memories[i].type = "observation"
                  /\ memory'["a1"].memories[i].importance = 4
           /\ agents' = agents
           /\ pipe'["a1"].pc = "maybe_reflect"]_vars

(***************************************************************************)
(* The re-plan specification: an agent with a plan for the whole day       *)
(* reacts, at any time of the day, as the reaction decisions say.          *)
(***************************************************************************)
Reacted(op, replan, blocks) == [op |-> op, replan |-> replan, blocks |-> blocks]

DayPlans ==
    { DailyPlan(0, <<PlanBlock(Hour(0), Hour(8), "sleep"), PlanBlock(Hour(8), Hour(24), "work")>>,
                <<>>, <<>>),
      DailyPlan(0, <<PlanBlock(Hour(0), Hour(8), "sleep"), PlanBlock(Hour(8), Hour(16), "work"),
                  PlanBlock(Hour(16), Hour(24), "rest")>>, <<>>, <<>>) }

ReplanInit ==
    /\ now = 0
    /\ memory = [a \in AgentIds |-> MemoryManager(MaxMemories)]
    /\ ret = Reacted("init", "none", 0)
    /\ agents \in {[a \in {"a1"} |-> Agent("active", CurrentAction("idle", 0, 0), plan)] :
                   plan \in DayPlans}
    /\ pipe = <<>>
    /\ sched = NewScheduler(<<>>)
    /\ EmptyShared

\* await execute_reaction(agent, decision)
ReactTo(a, decision, replan_llm) ==
    LET r == execute_reaction(agents[a], memory[a], decision, replan_llm, now)
    IN  /\ memory' = [memory EXCEPT ![a] = r.store]
        /\ agents' = [agents EXCEPT ![a].daily_plan = r.plan]
        /\ ret' = Reacted("execute_reaction", r.replan, r.blocks)
        /\ UNCHANGED now

ReplanNext ==
    \/ Clock(SlotsPerDay - 1) /\ UNCHANGED agents
    \/ \E decision \in {ReactionDecision(TRUE, "interrupt", <<"help">>),
                        ReactionDecision(TRUE, "interrupt", NoText),
                        ReactionDecision(TRUE, "note", <<"seen">>),
                        ReactionDecision(FALSE, "continue", NoText)} :
         \E replan_llm \in ReplanReplies : ReactTo("a1", decision, replan_llm)

SpecReplan ==
    ReplanInit /\ [][ReplanNext /\ UNCHANGED <<pipe, sched, shared>> /\ RetrieveBounds']_vars

\* C30: a re-plan that gave new blocks replaces the tail of broad_strokes only:
\* every block that ended before the time of the re-plan is still in
\* broad_strokes afterwards.
C30_EndedBlocksKept ==
    [][(now' = now /\ ret'.op = "execute_reaction" /\ ret'.blocks > 0)
        => LET old == agents["a1"].daily_plan.broad_strokes
               new == agents'["a1"].daily_plan.broad_strokes
           IN  \A i \in DOMAIN old :
                   StrLess(old[i].end_time, TimeStr(now)) => old[i] \in Range(new)]_vars


(***************************************************************************)
(* The daily-plan specification: three registered agents, the second of    *)
(* them in any state, while the scheduler is started and stopped, the      *)
(* clock runs into the second day and the daily-plan trigger asks the      *)
(* inference service for one plan after the other.                         *)
(***************************************************************************)
DayPlanReplies ==
    {ReplanReply("fail", <<>>), ReplanReply("unparsable", <<>>),
     ReplanReply("plan", <<PlanBlock(Hour(8), Hour(24), "work")>>)}

DayPlanInit ==
    /\ now = 0
    /\ memory = [a \in AgentIds |-> MemoryManager(MaxMemories)]
    /\ ret = Ret("init", FALSE, NoResult)
    /\ agents \in {f \in [AgentIds -> LoadedAgents] :
                        /\ f["a1"].state = "active"
                        /\ f["a2"].state \in {"active", "sleeping"}
                        /\ f["a3"].state = "busy"}
    /\ pipe = [a \in AgentIds |-> IdlePipe]
    /\ sched = NewScheduler(agents)
    /\ EmptyShared

DayPlanNext ==
    \/ Clock(LoopTime) /\ UNCHANGED world
    \/ Start
    \/ Stop
    \/ Tick
    \/ \E llm \in DayPlanReplies : GenerateDailyPlan(llm)

SpecDayPlan ==
    DayPlanInit /\ [][DayPlanNext /\ UNCHANGED <<conversations, recent_events>> /\ sched'.ticks <= LoopTicks]_vars

\* C31: a plan that fails for one agent of a daily-plan trigger, by an error of
\* the inference call or a reply that cannot be parsed, leaves that agent with
\* an empty DailyPlan, raises nothing into the loop, and the trigger goes on to
\* every agent that is left, so that at its end each agent that is neither
\* offline nor sleeping has been served.
C31_FailedPlanKeepsTheTrigger ==
    /\ [](\A llm \in DayPlanReplies, d \in 0..game_date(LoopTime) :
              llm.kind # "plan" => generate_daily_plan(llm, d) = DailyPlan(d, <<>>, <<>>, <<>>))
    /\ [][(sched.phase = "plan" /\ sched.queue # <<>>
             /\ Head(sched.queue) \in sched'.planned \ sched.planned)
            => /\ sched'.task = "live" /\ ~sched'.error
               /\ agents'[Head(sched.queue)].daily_plan \in
                      {generate_daily_plan(llm, sched.game_date) : llm \in DayPlanReplies}
               /\ sched'.queue = SkipResting(Tail(sched.queue), agents)
               /\ \A a \in DOMAIN agents \ {Head(sched.queue)} : agents'[a] = agents[a]
               /\ sched'.phase # "plan"
                    => \A a \in DOMAIN agents :
                           agents[a].state \notin {"offline", "sleeping"}
                               => a \in sched'.planned]_vars

\* a trigger has ended in which the plan of the first agent failed and a
\* later agent got its plan
C31_Witness ==
    /\ sched.last_plan_date = sched.game_date /\ sched.last_plan_date # NoDate
    /\ agents["a1"].daily_plan = DailyPlan(sched.game_date, <<>>, <<>>, <<>>)
    /\ agents["a2"].daily_plan.exists /\ agents["a2"].daily_plan.broad_strokes # <<>>
    /\ agents["a3"].daily_plan.exists /\ agents["a3"].daily_plan.broad_strokes = <<>>
    /\ sched.planned = {"a1", "a2", "a3"}

(***************************************************************************)
(* C32: in run_reflection a question without an insight (the call failed,  *)
(* the text was blank, nothing was retrieved) is skipped and the questions *)
(* after it are still processed: question by question, the loop adds       *)
(* exactly one new memory, of type reflection and importance 8, when an    *)
(* insight came back, and adds nothing otherwise; memories_created equals  *)
(* the number of insights and is at most 3.  The loop is compared with the *)
(* run on every store for which the tick asks for a reflection.            *)
(***************************************************************************)
AfterQuestions(store, questions, insight_llm, n, t) ==
    ReflectQuestions([store |-> store, insights |-> 0, memories_created |-> 0],
                     Take(questions, n), insight_llm, {"k2"}, t)

C32_OnlyFailedQuestionSkipped ==
    /\ ret.op = "run_reflection"
           => ret.memories_created = ret.insights /\ ret.insights <= ret.questions
                  /\ ret.questions <= 3
    /\ \A ql \in QuestionReplies :
         \A il \in {r \in InsightReplies : Len(ql.lines) > 2 \/ r[2] = "text"} :
           LET store == memory["a1"]
               questions == generate_questions(store, ql)
               run == run_reflection(store, ql, il, {"k2"}, now)
               last == AfterQuestions(store, questions, il, Len(questions), now)
           IN  should_reflect(store) /\ questions # <<>> =>
                 /\ run.result.questions = Len(questions)
                 /\ run.result.insights = last.insights
                 /\ run.result.memories_created = last.memories_created
                 /\ run.store.memories = last.store.memories
                 /\ \A n \in 1 .. Len(questions) :
                      LET before == AfterQuestions(store, questions, il, n - 1, now)
                          after == AfterQuestions(store, questions, il, n, now)
                          found == retrieve_relevant(before.store, questions[n].kw,
                                                     RelevantLimit, MinScore, now)
                          new == {i \in DOMAIN after.store.memories :
                                      after.store.memories[i].id \notin MemoryIds(before.store)}
                      IN  IF found.results # <<>> /\ il[n] = "text"
                          THEN /\ after.insights = before.insights + 1
                               /\ after.memories_created = before.memories_created + 1
                               /\ Cardinality(new) = 1
                               /\ \A i \in new :
                                     /\ after.store.memories[i].type = "reflection"
                                     /\ after.store.memories[i].importance = 8
                          ELSE /\ after.insights = before.insights
                               /\ after.memories_created = before.memories_created
                               /\ after.store = found.store

\* a reflection on three questions of which one gave an insight, now stored
C32_Witness ==
    /\ ret.op = "run_reflection" /\ ret.questions = 3
    /\ ret.insights = 1 /\ ret.memories_created = 1
    /\ \E i \in DOMAIN memory["a1"].memories :
           /\ memory["a1"].memories[i].type = "reflection"
           /\ memory["a1"].memories[i].importance = 8
           /\ memory["a1"].memories[i].created_at = now

(***************************************************************************)
(* C33: within one agent's pipeline of a tick the steps come in the order  *)
(* perceive, should_react, then execute_reaction for an interrupt or       *)
(* else maybe_reflect, the completion of an elapsed action with the        *)
(* decision request, and execute_decision: a step is taken only after the  *)
(* one before it, each step hands over to the next one of the order or     *)
(* ends the pipeline, and from the start of the batches until should_react *)
(* has returned no step of any pipeline changes the agent, so that the     *)
(* perception shows the agent before any action of the tick.               *)
(***************************************************************************)
NextSteps(pc) ==
    CASE pc = "perceive" -> {"should_react", "done"}
      [] pc = "should_react" -> {"execute_reaction", "maybe_reflect", "done"}
      [] pc = "execute_reaction" -> {"done"}
      [] pc = "maybe_reflect" -> {"decide", "done"}
      [] pc = "decide" -> {"execute", "done"}
      [] pc = "execute" -> {"done"}
      [] OTHER -> {"idle", "perceive"}

C33_StepsInOrder ==
    /\ [](\A a \in DOMAIN pipe :
            LET steps == pipe[a].steps
            IN  /\ pipe[a].pc \notin {"idle", "perceive"} => "perceive" \in steps
                /\ "should_react" \in steps => "perceive" \in steps
                /\ "execute_reaction" \in steps
                       => /\ "should_react" \in steps
                          /\ steps \cap {"maybe_reflect", "complete", "decide", "execute"} = {}
                /\ "maybe_reflect" \in steps
                       => "should_react" \in steps /\ "execute_reaction" \notin steps
                /\ "complete" \in steps => "decide" \in steps
                /\ "decide" \in steps => "maybe_reflect" \in steps
                /\ "execute" \in steps => "decide" \in steps)
    /\ [][\A a \in DOMAIN pipe :
            /\ pipe'[a].pc # pipe[a].pc /\ sched'.task = "live"
                   => pipe'[a].pc \in NextSteps(pipe[a].pc)
            /\ (sched.phase = "batch" /\ pipe[a].pc \in {"idle", "perceive", "should_react"})
                   => agents'[a] = agents[a]]_vars

\* the first agent went through every step and works; the third, of the next
\* batch, has perceived after that and not yet acted
C33_Witness ==
    /\ pipe["a1"].pc = "done" /\ pipe["a1"].outcome = "returned"
    /\ {"perceive", "should_react", "maybe_reflect", "decide", "execute"} \subseteq pipe["a1"].steps
    /\ agents["a1"].current_action.type = "work"
    /\ pipe["a3"].pc = "should_react"
    /\ agents["a3"].current_action.type = "idle"

(***************************************************************************)
(* The sleep specification: two active agents whose decisions are to       *)
(* sleep or to rest, the scheduler started, the clock running past the     *)
(* duration of a sleep.  The event loop runs every coroutine that can run  *)
(* and the clock task advances the time, so a step that stays possible is  *)
(* taken.                                                                  *)
(***************************************************************************)
SleepInit ==
    /\ now = 0
    /\ memory = [a \in {"a1", "a2"} |-> MemoryManager(MaxMemories)]
    /\ ret = Ret("init", FALSE, NoResult)
    /\ agents = [a \in {"a1", "a2"} |-> Agent("active", CurrentAction("idle", 0, 0), NoPlan)]
    /\ pipe = [a \in {"a1", "a2"} |-> IdlePipe]
    /\ sched = Configured(NewScheduler(agents), LatestPlanStartHour)
    /\ EmptyShared

SleepNext ==
    \/ Clock(LoopTime) /\ UNCHANGED world
    \/ Start
    \/ Tick
    \/ BatchEnd
    \/ \E a \in {"a1", "a2"} :
        \/ Perceive(a, Perception(<<>>, <<>>, NoText))
        \/ ShouldReact(a, ReactReply("fail", FALSE, "", NoText))
        \/ Reflect(a, [ok |-> FALSE, lines |-> <<>>], <<"fail", "fail", "fail">>, {"k2"})
        \/ \E response \in {Says("SLEEP", NoText, NoText), Says("REST", NoText, NoText)} :
                RequestDecision(a, Thrice(response))
        \/ ExecuteDecision(a)

SleepStep == SleepNext /\ UNCHANGED <<conversations, recent_events>> /\ sched'.ticks <= LoopTicks

SpecSleep == SleepInit /\ [][SleepStep]_vars /\ WF_vars(SleepStep)

WorldEvent(location_id, description, timestamp) ==
    [location_id |-> location_id, description |-> description, timestamp |-> timestamp]

\* PerceptionSystem.add_event: the event is stamped and appended, and the events
\* of the last five minutes are kept
add_event(events, location_id, description, t) ==
    LET stamped == Append(events, WorldEvent(location_id, description, t))
    IN  SelectSeq(stamped, LAMBDA e : e.timestamp * UnitMinutes > t * UnitMinutes - 5)

\* step 4 of PerceptionSystem.perceive: the descriptions of the events newer than
\* the cutoff that are at the agent's location or have none
new_events(events, cutoff, location_id) ==
    LET fresh == SelectSeq(events, LAMBDA e : /\ e.timestamp > cutoff
                                              /\ \/ e.location_id = location_id
                                                 \/ e.location_id = NoLocation)
    IN  [i \in DOMAIN fresh |-> fresh[i].description]

\* PerceptionSystem.perceive: the other agents at the agent's location and the
\* new events; nobody addresses the agent
perceive(agent_id, registered, byloc, events, cutoff) ==
    LET position == registered[agent_id].position
        here == IF position # NoLocation /\ position \in DOMAIN byloc
                THEN byloc[position] \ {agent_id} ELSE {}
    IN  Perception(SelectSeq(AgentOrder, LAMBDA a : a \in here),
                   new_events(events, cutoff, position), NoText)

\* add_event(event); datetime.now() has moved on since the last perception
AddEvent(location_id, description) ==
    /\ now > last_event_check
    /\ recent_events' = add_event(recent_events, location_id, description, now)
    /\ UNCHANGED <<now, memory, ret, agents, pipe, sched, bus, locations, by_location,
                   last_event_check, conversations>>

\* perceive_environment(agent) on the buffer of events
PerceiveEvents(a) ==
    /\ Perceive(a, perceive(a, agents, by_location, recent_events, last_event_check))
    /\ UNCHANGED recent_events

(***************************************************************************)
(* The events specification: two agents in the cafe, eligible in every     *)
(* tick and in one batch, and world events recorded between the ticks, at  *)
(* the cafe, at home or without a place.                                   *)
(***************************************************************************)
EventsInit ==
    /\ now = 0
    /\ memory = [a \in {"a1", "a2"} |-> MemoryManager(MaxMemories)]
    /\ ret = Ret("init", FALSE, NoResult)
    /\ agents = [a \in {"a1", "a2"} |->
                    At(Agent("active", CurrentAction("idle", 0, 0), NoPlan), "cafe")]
    /\ pipe = [a \in {"a1", "a2"} |-> IdlePipe]
    /\ sched = Configured(NewScheduler(agents), LatestPlanStartHour)
    /\ bus = Subscribing(EventBus)
    /\ locations = [l \in {"cafe", "home"} |->
                       IF l = "cafe" THEN Location(<<"cafe">>, 2, {"a1", "a2"})
                       ELSE Location(<<"home">>, 1, {})]
    /\ by_location = [l \in {"cafe", "home"} |-> IF l = "cafe" THEN {"a1", "a2"} ELSE {}]
    /\ last_event_check = 0
    /\ conversations = ConversationManager
    /\ recent_events = <<>>

EventsNext ==
    \/ Clock(LoopTime) /\ UNCHANGED world
    \/ \E l \in {"cafe", "home", NoLocation} :
            sched.phase = "wait" /\ AddEvent(l, <<"e", l>>)
    \/ /\ UNCHANGED recent_events
       /\ \/ Start
          \/ Tick
          \/ BatchEnd
          \/ \E a \in {"a1", "a2"} :
              \/ ShouldReact(a, ReactReply("fail", FALSE, "", NoText))
              \/ Reflect(a, [ok |-> FALSE, lines |-> <<>>], <<"fail", "fail", "fail">>, {"k2"})
              \/ RequestDecision(a, Thrice(GenerateRaised))
    \/ \E a \in {"a1", "a2"} : PerceiveEvents(a)

SpecEvents ==
    EventsInit /\ [][/\ EventsNext
                     /\ UNCHANGED conversations
                     /\ sched'.ticks <= LoopTicks
                     /\ Len(recent_events') <= MaxEvents]_vars

(***************************************************************************)
(* C35: a world event recorded at a location, or without one, is among the *)
(* new events of the next perception of every agent at that location (of   *)
(* every agent), whatever the order in which the agents of a batch         *)
(* perceive: in the first tick the perception of an agent holds every      *)
(* event of the buffer that is at its location or has none; two agents at  *)
(* the same location that have perceived in the same tick have the same    *)
(* new events; and a perception holds only events of the buffer that are   *)
(* at the agent's location or have none.                                   *)
(***************************************************************************)
Perceived(a) == sched.phase = "batch" /\ pipe[a].pc \notin {"idle", "perceive"}

ForAgent(a) ==
    {recent_events[i].description : i \in
        {j \in DOMAIN recent_events :
            recent_events[j].location_id \in {agents[a].position, NoLocation}}}

C35_EveryAgentThereSeesTheEvent ==
    \A a \in DOMAIN pipe :
        Perceived(a) =>
            /\ sched.ticks = 1 => ForAgent(a) \subseteq Range(pipe[a].perception.new_events)
            /\ Range(pipe[a].perception.new_events) \subseteq ForAgent(a)
            /\ \A b \in DOMAIN pipe :
                   (Perceived(b) /\ agents[b].position = agents[a].position)
                       => pipe[b].perception.new_events = pipe[a].perception.new_events

(***************************************************************************)
(* The completion specification: an agent at work and an agent asleep,     *)
(* both with their action under way, ticks that an interrupt cuts short,   *)
(* ticks without a decision, and decisions to work or to sleep.            *)
(***************************************************************************)
CompleteInit ==
    /\ now = 0
    /\ memory = [a \in {"a1", "a2"} |-> MemoryManager(MaxMemories)]
    /\ ret = Ret("init", FALSE, NoResult)
    /\ agents = [a \in {"a1", "a2"} |->
                    IF a = "a1" THEN Agent("busy", CurrentAction("work", 60, 0), NoPlan)
                    ELSE Agent("sleeping", CurrentAction("sleep", 480, 0), NoPlan)]
    /\ pipe = [a \in {"a1", "a2"} |-> IdlePipe]
    /\ sched = Configured(NewScheduler(agents), LatestPlanStartHour)
    /\ EmptyShared

CompleteNext ==
    \/ Clock(MaxTime + 1) /\ UNCHANGED world
    \/ Start
    \/ Tick
    \/ BatchEnd
    \/ \E a \in {"a1", "a2"} :
        \/ \E p \in {Perception(<<>>, <<>>, NoText), Perception(<<"a2">>, <<>>, <<"a2">>)} :
                Perceive(a, p)
        \/ ShouldReact(a, ReactReply("fail", FALSE, "", NoText))
        \/ ExecuteReaction(a, ReplanReply("fail", <<>>))
        \/ Reflect(a, [ok |-> FALSE, lines |-> <<>>], <<"fail", "fail", "fail">>, {"k2"})
        \/ \E response \in {GenerateRaised, Says("WORK", NoText, NoText),
                            Says("SLEEP", NoText, NoText)} :
                RequestDecision(a, Thrice(response))
        \/ ExecuteDecision(a)

SpecComplete ==
    CompleteInit /\ [][/\ CompleteNext
                       /\ UNCHANGED <<conversations, recent_events>>
                       /\ sched'.ticks <= CompleteTicks]_vars

(***************************************************************************)
(* C36: the completion effects of an action whose duration has elapsed are *)
(* applied exactly once, whatever the ticks: the income of an agent grows  *)
(* only by the wage of an elapsed Work action, in the step that takes the  *)
(* action away; an action with a duration is replaced only in a tick that  *)
(* has completed it; a pipeline that comes to its decision request with an *)
(* elapsed action completes it, with or without a decision; and an agent   *)
(* neither paused nor offline whose action has elapsed is among the agents *)
(* of the next tick, so that the completion comes.                         *)
(***************************************************************************)
SameAction(x, y) ==
    x.type = y.type /\ x.duration_minutes = y.duration_minutes /\ x.started_at = y.started_at

Elapsed(a) ==
    agents[a].current_action.duration_minutes > 0 /\ is_complete(agents[a].current_action, now)

C36_PaidOnce ==
    [][\A a \in DOMAIN agents :
          agents'[a].daily_income # agents[a].daily_income
              => /\ agents[a].current_action.type = "work" /\ Elapsed(a)
                 /\ agents'[a].daily_income = agents[a].daily_income
                        + (Money(programmer_hourly_wage)
                              * agents[a].current_action.duration_minutes) \div 60
                 /\ agents'[a].balance = agents[a].balance
                        + (agents'[a].daily_income - agents[a].daily_income)
                 /\ ~SameAction(agents'[a].current_action, agents[a].current_action)
                 /\ "complete" \in pipe'[a].steps \ pipe[a].steps]_vars

C36_ReplacedOnlyWhenCompleted ==
    [][\A a \in DOMAIN agents :
          /\ (agents[a].current_action.duration_minutes > 0
                /\ ~SameAction(agents'[a].current_action, agents[a].current_action))
                 => "complete" \in pipe'[a].steps
          /\ (pipe[a].pc = "decide" /\ pipe'[a].pc # "decide" /\ Elapsed(a))
                 => /\ "complete" \in pipe'[a].steps
                    /\ agents'[a].state = "active"
                    /\ agents'[a].current_action.duration_minutes = 0]_vars

C36_ElapsedActionCompletedOnce ==
    /\ C36_PaidOnce
    /\ C36_ReplacedOnlyWhenCompleted
    /\ [][(sched'.ticks = sched.ticks + 1)
            => \A a \in DOMAIN agents :
                  (Elapsed(a) /\ agents[a].state \notin {"paused", "offline"})
                      => a \in Range(sched'.eligible)]_vars

(***************************************************************************)
(* C37: the directory of the world is consistent: each agent that has a    *)
(* location is listed in the location index of the agent manager under     *)
(* its position.location_id and in the current_agents of that Location,    *)
(* and in the index entry and the current_agents of no other location.     *)
(***************************************************************************)
C37_DirectoryConsistent ==
    \A a \in DOMAIN agents :
        agents[a].position # NoLocation =>
            /\ agents[a].position \in DOMAIN by_location
            /\ agents[a].position \in DOMAIN locations
            /\ \A l \in DOMAIN by_location : a \in by_location[l] <=> l = agents[a].position
            /\ \A l \in DOMAIN locations :
                   a \in locations[l].current_agents <=> l = agents[a].position

(***************************************************************************)
(* The index specification: memories are added to one store of capacity    *)
(* two as objects, under a new id or under an id the store holds, of       *)
(* either of two types and naming another agent not at all or twice, and   *)
(* they are removed.                                                       *)
(***************************************************************************)
\* MemoryManager.count_by_type
count_by_type(store) == [t \in MemoryTypes |-> Len(store.by_type[t])]

RECURSIVE SumOver(_, _)
SumOver(f, keys) ==
    IF keys = {} THEN 0
    ELSE LET k == CHOOSE x \in keys : TRUE IN f[k] + SumOver(f, keys \ {k})

Add(a, m) ==
    /\ memory' = [memory EXCEPT ![a] = add(@, m, now)]
    /\ ret' = Ret("add", FALSE, NoResult)
    /\ UNCHANGED now

IndexInit ==
    /\ now = 0
    /\ memory = [a \in AgentIds |-> MemoryManager(RetrieveCapacity)]
    /\ ret = Ret("init", FALSE, NoResult)
    /\ IdleWorld

IndexBounds ==
    /\ memory["a1"].accumulated_importance <= MaxMemAccumulated
    /\ MaxIndexLen(memory["a1"]) <= RetrieveCapacity + 1

IndexNext ==
    \/ \E id \in MemoryIds(memory["a1"]) \cup {FreshId(memory["a1"])} :
         \E type \in {"event", "observation"} :
           \E related \in {<<>>, <<"a2", "a2">>} :
              Add("a1", Memory(id, type, 5, now, related, {"k1"}))
    \/ \E id \in MemoryIds(memory["a1"]) : Remove("a1", id)
    \/ AdvanceClock

SpecIndex == IndexInit /\ [][IndexNext /\ UNCHANGED world /\ IndexBounds']_vars

(***************************************************************************)
(* C38: the indices of the store are consistent after every add, remove    *)
(* and eviction: every id in the index of a type or of an agent is the id  *)
(* of a stored memory, each stored memory is exactly once in the index of  *)
(* its type, and the numbers of count_by_type add up to count.             *)
(***************************************************************************)
C38_IndicesConsistent ==
    LET store == memory["a1"]
    IN  /\ \A t \in MemoryTypes : Range(store.by_type[t]) \subseteq MemoryIds(store)
        /\ \A a \in DOMAIN store.by_agent : Range(store.by_agent[a]) \subseteq MemoryIds(store)
        /\ \A i \in DOMAIN store.memories :
              LET m == store.memories[i]
              IN  Cardinality({k \in DOMAIN store.by_type[m.type] :
                                  store.by_type[m.type][k] = m.id}) = 1
        /\ SumOver(count_by_type(store), MemoryTypes) = count(store)

(***************************************************************************)
(* C39: under any sequence of start() and stop() at most one scheduler     *)
(* loop runs: a loop task is alive only while the scheduler is running,    *)
(* start() creates a task only when the one before has ended and none of   *)
(* its pipelines is in flight, and while the scheduler is running no step  *)
(* creates or ends a task.                                                 *)
(***************************************************************************)
C39_OneLoopAtATime ==
    /\ [](sched.task = "live" => sched.is_running)
    /\ [][(sched'.is_running /\ ~sched.is_running)
            => /\ sched.task # "live" /\ sched'.task = "live"
               /\ \A a \in DOMAIN pipe : pipe[a].pc \in {"idle", "done"}
               /\ pipe' = pipe /\ sched'.ticks = sched.ticks]_vars
    /\ [][(sched.is_running /\ sched'.is_running) => sched'.task = sched.task]_vars

\* the scheduler was stopped during a batch of its second tick and started
\* again: the pipeline of the old loop is cancelled and the new loop is at its
\* first await
C39_Witness ==
    /\ sched.is_running /\ sched.task = "live" /\ sched.phase = "wait"
    /\ sched.ticks = 2
    /\ pipe["a1"].pc = "done" /\ pipe["a1"].outcome = "cancelled"

(***************************************************************************)
(* C40: the plan a tick consults.  One active agent without a plan, the    *)
(* default daily_plan_start_hour, and a clock that runs into the second    *)
(* day: the trigger of the first day gives the agent its plan, and the     *)
(* ticks of the second day before the start hour run the pipeline without  *)
(* a new trigger.                                                          *)
(***************************************************************************)
PlanDateInit ==
    /\ now = 0
    /\ memory = [a \in AgentIds |-> MemoryManager(MaxMemories)]
    /\ ret = Ret("init", FALSE, NoResult)
    /\ agents = [a \in {"a1"} |-> Agent("active", CurrentAction("idle", 0, 0), NoPlan)]
    /\ pipe = [a \in {"a1"} |-> IdlePipe]
    /\ sched = NewScheduler(agents)
    /\ EmptyShared

PlanDateNext ==
    \/ Clock(LoopTime) /\ UNCHANGED world
    \/ Start
    \/ Tick
    \/ \E llm \in {ReplanReply("fail", <<>>),
                   ReplanReply("plan", <<PlanBlock(Hour(0), Hour(24), "work")>>)} :
            GenerateDailyPlan(llm)
    \/ BatchEnd
    \/ \E p \in {Perception(<<>>, <<>>, NoText), Perception(<<"a2">>, <<>>, <<"a2">>)} :
            Perceive("a1", p)
    \/ ShouldReact("a1", ReactReply("fail", FALSE, "", NoText))
    \/ \E llm \in {ReplanReply("fail", <<>>),
                   ReplanReply("plan", <<PlanBlock(Hour(0), Hour(24), "rest")>>)} :
            ExecuteReaction("a1", llm)
    \/ Reflect("a1", [ok |-> FALSE, lines |-> <<>>], <<"fail", "fail", "fail">>, {"k2"})
    \/ \E response \in {GenerateRaised, Says("REST", NoText, NoText)} :
            RequestDecision("a1", Thrice(response))
    \/ ExecuteDecision("a1")

SpecPlanDate ==
    PlanDateInit /\ [][/\ PlanDateNext
                       /\ UNCHANGED <<conversations, recent_events>>
                       /\ sched'.ticks <= LoopTicks]_vars

\* C40: whenever a pipeline looks up the current task of its agent's plan and
\* finds a block, and whenever a reaction re-plans from the agent's plan, the
\* plan_date of that plan is the in-world date of the step.
C40_PlanOfTheCurrentDate ==
    [][\A a \in DOMAIN agents :
          /\ ( /\ "should_react" \in pipe'[a].steps \ pipe[a].steps
               /\ agents[a].daily_plan.exists
               /\ get_current_task(agents[a].daily_plan, now) # NoBlock )
                => agents[a].daily_plan.plan_date = game_date(now)
          /\ ( /\ "execute_reaction" \in pipe'[a].steps \ pipe[a].steps
               /\ pipe'[a].replan # "none" )
                => agents[a].daily_plan.plan_date = game_date(now)]_vars
====
